---- MODULE Spec2Model ----
(***************************************************************************)
(* Ontology-grounded planning pipeline of agent_poc: relation discovery,   *)
(* deterministic entity expansion, candidate tool collection and the hand  *)
(* over of the plan to code generation.                                    *)
(*                                                                         *)
(* Python values are represented as follows.  A str is a TLA+ string; its  *)
(* code points are given by Chars, and lower() and the ordering used by    *)
(* sorted() are computed on the code points.  A dict is the sequence of    *)
(* its (key, value) items in insertion order.  A list is a sequence, a set *)
(* is a set, a tuple is a tuple.                                           *)
(***************************************************************************)
EXTENDS Integers, Sequences, FiniteSets, TLC

VARIABLES
    pc,                 \* position of the running function
    error,              \* exception raised by the running function, or "none"
    \* the semantic layer (engine.py, SemanticLayer)
    entities,           \* dict name -> EntitySchema, as the sequence of schemas
    relations,          \* dict key -> RelationSchema, as the sequence of schemas
    tools,              \* dict name -> ToolInfo, as the sequence of ToolInfo
    tools_by_relation,  \* dict key -> list of ToolInfo, as a sequence of items
    tools_by_entity,    \* dict name -> list of ToolInfo, as a sequence of items
    \* expand_entities
    expand_args,        \* how the call is written: positional count and keywords
    step1_entities,     \* the seed entity records the call passes
    relevant_relations, \* the relevance map the call passes, when it passes one
    entity_types,       \* local set entity_types
    active_relations,   \* the active relations (an input of run_planning)
    expanded_entities,  \* the expanded entity list (an input of run_planning)
    \* discover_relations
    seed_entities,      \* the seed entity records
    seen,               \* local set seen
    candidates,         \* local list candidates, the returned list
    seed_i,             \* position of the outer for loop
    rel_list,           \* list_relations(entity_type) of the current seed
    rel_j,              \* position of the inner for loop
    \* run_planning
    extracted_entities, \* parameter extracted_entities
    candidate_tools,    \* local candidate_tools, handed to the planner
    planner_calls,      \* the candidate tool lists the planner was called with
    plan_steps,         \* local plan_steps, what the planner returned
    codegen_calls,      \* the plans the code generator was called with, in order
    python_code,        \* local python_code
    returned,           \* the returned tuple (plan_steps, python_code), or NotReturned
    \* tool registration (tool_decorator.py, load_tools)
    TOOLS_REGISTRY,     \* dict name -> metadata, as the sequence of metadata
    decl_log,           \* the @semantic_tool declarations made, with their outcome
    lookup,             \* the last get_tools_for_* call: kind, key and result
    \* load_ontology
    fragments,          \* the YAML documents of the source, in reading order
    frag_i,             \* position of the loop over yaml_files
    entities_payload,   \* local dict entities_payload / entities_def
    ent_i,              \* position of the loop over entities_def
    \* RelationFiltering.forward
    batch_size,         \* self.batch_size
    filter_relations,   \* parameter relations
    filter_i,           \* loop variable i
    oracle_calls,       \* the batches self.predict was called with, in order
    oracle_results,     \* result.relevant of each call, in order
    merged,             \* local dict merged
    final,              \* the returned dict final
    \* Relation.key / from_key
    triple_a,           \* a (source, name, target) triple
    triple_b,           \* another triple
    key_a,              \* Relation(*triple_a).key()
    key_b,              \* Relation(*triple_b).key()
    parsed_a,           \* Relation.from_key(key_a), or the exception it raises
    \* PythonCodeGen
    generated,              \* result.python_code, the text the generator's model answered
    validate_syntax,        \* self._validate_syntax
    strip_markdown_fences,  \* self._strip_markdown_fences
    forward_result,         \* what forward returned, or the exception it raised
    \* normalize_model_schema
    schema,             \* the dict passed as parameter schema, changed in place
    normalized,         \* what the first call returned
    normalized_twice,   \* what a second call on the result returned
    normalize_calls,    \* the calls made: the argument as passed and the result
    \* load_tools called repeatedly
    tool_modules,       \* parameter tool_modules
    sys_modules,        \* the modules the process has imported
    load_results,       \* what each load_tools call returned, in order
    \* load_ontology on the two layouts of a source
    document,           \* the entities mapping of the single file
    file_names,         \* the file name of each entity of the mapping in the directory
    dir_model           \* what load_ontology returned for the directory

layerVars == <<entities, relations, tools, tools_by_relation, tools_by_entity>>

expandVars == <<expand_args, step1_entities, relevant_relations, entity_types,
                active_relations, expanded_entities>>

discoverVars == <<seed_entities, seen, candidates, seed_i, rel_list, rel_j>>

planVars == <<extracted_entities, candidate_tools, planner_calls, plan_steps,
              codegen_calls, python_code, returned>>

registryVars == <<TOOLS_REGISTRY, decl_log, lookup>>

ontologyVars == <<fragments, frag_i, entities_payload, ent_i>>

filterVars == <<batch_size, filter_relations, filter_i, oracle_calls, oracle_results,
                merged, final>>

keyVars == <<triple_a, triple_b, key_a, key_b, parsed_a>>

codegenVars == <<generated, validate_syntax, strip_markdown_fences, forward_result>>

schemaVars == <<schema, normalized, normalized_twice, normalize_calls>>

reloadVars == <<tool_modules, sys_modules, load_results>>

layoutVars == <<document, file_names, dir_model>>

\* The variables of the functions that stand alone.
moduleVars == <<codegenVars, schemaVars, reloadVars, layoutVars>>

pipelineVars == <<expandVars, discoverVars, planVars, moduleVars>>

stageVars == <<registryVars, ontologyVars, filterVars, keyVars, moduleVars>>

vars == <<pc, error, layerVars, expandVars, discoverVars, planVars, stageVars>>

\* Python's None, and the marker of a call that has not returned.
None == "None"

NotReturned == <<>>

----------------------------------------------------------------------------
(* Bounds of the explored inputs. *)

MaxSeeds == 2

MaxRels == 2

----------------------------------------------------------------------------
(* Strings. *)

Chars(s) ==
    CASE s = "City" -> <<67, 105, 116, 121>>
    [] s = "Container" -> <<67, 111, 110, 116, 97, 105, 110, 101, 114>>
    [] s = "ContainerEvent" -> <<67, 111, 110, 116, 97, 105, 110, 101, 114, 69, 118, 101, 110, 116>>
    [] s = "Facility" -> <<70, 97, 99, 105, 108, 105, 116, 121>>
    [] s = "Shipment" -> <<83, 104, 105, 112, 109, 101, 110, 116>>
    [] s = "yes" -> <<121, 101, 115>>
    [] s = "YES" -> <<89, 69, 83>>
    [] s = "Yes" -> <<89, 101, 115>>
    [] s = "no" -> <<110, 111>>
    [] s = "" -> <<>>
    [] s = " yes" -> <<32, 121, 101, 115>>
    [] s = "y" -> <<121>>
    [] s = "has_facility" -> <<104, 97, 115, 95, 102, 97, 99, 105, 108, 105, 116, 121>>
    [] s = "hosts_event" -> <<104, 111, 115, 116, 115, 95, 101, 118, 101, 110, 116>>
    [] s = "Facility.hosts_event->ContainerEvent" -> <<70, 97, 99, 105, 108, 105, 116, 121, 46, 104, 111, 115, 116, 115, 95, 101, 118, 101, 110, 116, 45, 62, 67, 111, 110, 116, 97, 105, 110, 101, 114, 69, 118, 101, 110, 116>>
    [] s = "City.has_facility->Facility" -> <<67, 105, 116, 121, 46, 104, 97, 115, 95, 102, 97, 99, 105, 108, 105, 116, 121, 45, 62, 70, 97, 99, 105, 108, 105, 116, 121>>
    [] s = "Facility.hosts_event" -> <<70, 97, 99, 105, 108, 105, 116, 121, 46, 104, 111, 115, 116, 115, 95, 101, 118, 101, 110, 116>>
    [] s = "a-" -> <<97, 45>>
    [] s = ">b" -> <<62, 98>>
    [] s = "a.b" -> <<97, 46, 98>>
    [] s = "x->y" -> <<120, 45, 62, 121>>
    [] s = "." -> <<46>>
    [] s = "->" -> <<45, 62>>
    [] s = "city.yaml" -> <<99, 105, 116, 121, 46, 121, 97, 109, 108>>
    [] s = "facility.yaml" -> <<102, 97, 99, 105, 108, 105, 116, 121, 46, 121, 97, 109, 108>>
    [] s = "entity_01.yaml" -> <<101, 110, 116, 105, 116, 121, 95, 48, 49, 46, 121, 97, 109, 108>>
    [] s = "city" -> <<99, 105, 116, 121>>
    [] s = "CITY" -> <<67, 73, 84, 89>>
    [] s = "Town" -> <<84, 111, 119, 110>>
    [] s = "town" -> <<116, 111, 119, 110>>
    [] s = "Terminal" -> <<84, 101, 114, 109, 105, 110, 97, 108>>
    [] s = "TERMINAL" -> <<84, 69, 82, 77, 73, 78, 65, 76>>
    [] s = "Planet" -> <<80, 108, 97, 110, 101, 116>>
    [] s = "facility" -> <<102, 97, 99, 105, 108, 105, 116, 121>>
    [] s = "result = events" -> <<114, 101, 115, 117, 108, 116, 32, 61, 32, 101, 118, 101, 110, 116, 115>>
    [] s = "result = (" -> <<114, 101, 115, 117, 108, 116, 32, 61, 32, 40>>
    [] s = "python" -> <<112, 121, 116, 104, 111, 110>>
    [] s = "Python" -> <<80, 121, 116, 104, 111, 110>>
    [] s = " " -> <<32>>
    [] s = "Here is the code:" -> <<72, 101, 114, 101, 32, 105, 115, 32, 116, 104, 101, 32, 99, 111, 100, 101, 58>>
    [] s = "has_event" -> <<104, 97, 115, 95, 101, 118, 101, 110, 116>>
    [] s = "belongs_to" -> <<98, 101, 108, 111, 110, 103, 115, 95, 116, 111>>
    [] s = "has_container" -> <<104, 97, 115, 95, 99, 111, 110, 116, 97, 105, 110, 101, 114>>

\* str.lower() on code points: A..Z become a..z, everything else is kept.
lower(cs) == [i \in 1..Len(cs) |-> IF cs[i] >= 65 /\ cs[i] <= 90 THEN cs[i] + 32 ELSE cs[i]]

\* The position of the first occurrence of sep in s at or after i, 0 if none.
RECURSIVE find(_, _, _)
find(s, sep, i) ==
    IF i + Len(sep) - 1 > Len(s) THEN 0
    ELSE IF SubSeq(s, i, i + Len(sep) - 1) = sep THEN i
    ELSE find(s, sep, i + 1)

\* The line feed, and the three backquotes that open and close a fence.
Newline == <<10>>

Fence == <<96, 96, 96>>

\* The code points str.strip() removes and \s matches.
Whitespace == {9, 10, 11, 12, 13, 32}

\* The first position at or after i that holds no whitespace.
RECURSIVE SkipWhitespace(_, _)
SkipWhitespace(cs, i) ==
    IF i <= Len(cs) /\ cs[i] \in Whitespace THEN SkipWhitespace(cs, i + 1) ELSE i

\* The last position at or before i that holds no whitespace.
RECURSIVE SkipWhitespaceBack(_, _)
SkipWhitespaceBack(cs, i) ==
    IF i >= 1 /\ cs[i] \in Whitespace THEN SkipWhitespaceBack(cs, i - 1) ELSE i

\* str.strip()
strip(cs) == SubSeq(cs, SkipWhitespace(cs, 1), SkipWhitespaceBack(cs, Len(cs)))

\* a < b for Python str: the first differing code point decides, and a proper
\* prefix is smaller.
RECURSIVE SeqLess(_, _)
SeqLess(a, b) ==
    IF b = <<>> THEN FALSE
    ELSE IF a = <<>> THEN TRUE
    ELSE IF a[1] # b[1] THEN a[1] < b[1]
    ELSE SeqLess(Tail(a), Tail(b))

StrLess(a, b) == SeqLess(Chars(a), Chars(b))

\* sorted(S) for a set of str.
RECURSIVE sorted(_)
sorted(S) ==
    IF S = {} THEN <<>>
    ELSE LET m == CHOOSE x \in S : \A y \in S \ {x} : StrLess(x, y)
         IN  <<m>> \o sorted(S \ {m})

Range(s) == {s[i] : i \in 1..Len(s)}

\* All sequences over S of length at most n.
SeqsUpTo(S, n) == UNION {[1..k -> S] : k \in 0..n}

----------------------------------------------------------------------------
(* Inputs of expand_entities. *)

EntityNames == {"City", "Container", "ContainerEvent", "Facility", "Shipment"}

\* Relation keys (from, name, to) that the relevance oracle can report.
RelationKeys ==
    { <<"City", "has_facility", "Facility">>,
      <<"Facility", "hosts_event", "ContainerEvent">>,
      <<"Container", "has_event", "ContainerEvent">> }

\* Values the relevance oracle can report for a key.
RelevanceValues == {"yes", "YES", "Yes", "no", "", " yes", "y"}

\* A seed record: a dict with a "type" key, or one without it.
SeedRecords == {[type |-> n] : n \in {"City", "Container", "Shipment"}} \cup {[value |-> "Sydney"]}

\* dicts keyed by relation key: item sequences without a repeated key.
RelevanceMaps ==
    {m \in SeqsUpTo(RelationKeys \X RelevanceValues, MaxRels) :
        \A i, j \in 1..Len(m) : i # j => m[i][1] # m[j][1]}

\* No call of expand_entities is being made.
NoCall == [positional |-> 0, keywords |-> {}]

\* How a call of expand_entities is written: the seeds alone, positionally or
\* by keyword; the seeds and the map positionally (entity_expansion.py,
\* lines 61-63); the seeds and the map by keyword (pipeline.py, lines 34-37).
ExpandCalls ==
    { [positional |-> 1, keywords |-> {}],
      [positional |-> 0, keywords |-> {"step1_entities"}],
      [positional |-> 2, keywords |-> {}],
      [positional |-> 0, keywords |-> {"step1_entities", "relevant_relations"}] }

\* The call hands over a relevance map.
PassesMap(call) == call.positional = 2 \/ "relevant_relations" \in call.keywords

----------------------------------------------------------------------------
(* expand_entities *)

\* Lines 8-10: the parameters of expand_entities, in order; none has a default.
ExpandParameters == <<"step1_entities">>

\* Lines 3-8: the names the module binds at top level.
ExpandGlobals == {"Dict", "List", "Set", "Tuple", "RelationKey", "expand_entities"}

\* Python's argument binding for parameters without defaults: the positional
\* arguments fill the first parameters, every keyword names one of the
\* others, and no parameter is left without a value.  A call that does not
\* bind raises TypeError before the body runs.
BindsArguments(params, call) ==
    /\ call.positional <= Len(params)
    /\ call.keywords \subseteq {params[i] : i \in (call.positional + 1)..Len(params)}
    /\ \A i \in (call.positional + 1)..Len(params) : params[i] \in call.keywords

\* A name read at line 25 resolves to a parameter, to the local assigned at
\* line 21 or to a module global; otherwise the read raises NameError.
NameBound(name) == name \in Range(ExpandParameters) \cup {"entity_types"} \cup ExpandGlobals

\* The variables of the parts a specification does not exercise.
IdleLayer ==
    /\ entities = <<>> /\ relations = <<>> /\ tools = <<>>
    /\ tools_by_relation = <<>> /\ tools_by_entity = <<>>

IdleExpand ==
    /\ expand_args = NoCall
    /\ step1_entities = <<>> /\ relevant_relations = <<>> /\ entity_types = {}

IdleDiscover ==
    /\ seed_entities = <<>> /\ seen = {} /\ candidates = <<>>
    /\ seed_i = 0 /\ rel_list = <<>> /\ rel_j = 0

IdlePlanning ==
    /\ extracted_entities = <<>> /\ candidate_tools = <<>> /\ plan_steps = <<>>
    /\ planner_calls = <<>>
    /\ codegen_calls = <<>> /\ python_code = Chars("") /\ returned = NotReturned

IdleRegistry ==
    /\ TOOLS_REGISTRY = <<>> /\ decl_log = <<>> /\ lookup = [kind |-> "none"]

IdleOntology ==
    /\ fragments = <<>> /\ frag_i = 0 /\ entities_payload = <<>> /\ ent_i = 0

IdleFilter ==
    /\ batch_size = 0 /\ filter_relations = <<>> /\ filter_i = 0
    /\ oracle_calls = <<>> /\ oracle_results = <<>> /\ merged = <<>> /\ final = <<>>

IdleKey ==
    /\ triple_a = <<>> /\ triple_b = <<>> /\ key_a = <<>> /\ key_b = <<>>
    /\ parsed_a = <<>>

\* No generator call was made; the flags have their default values.
IdleCodegen ==
    /\ generated = <<>> /\ validate_syntax = TRUE /\ strip_markdown_fences = TRUE
    /\ forward_result = [kind |-> "none"]

IdleSchema ==
    /\ schema = <<>> /\ normalized = <<>> /\ normalized_twice = <<>>
    /\ normalize_calls = <<>>

IdleReload ==
    /\ tool_modules = <<>> /\ sys_modules = {} /\ load_results = <<>>

IdleLayout ==
    /\ document = <<>> /\ file_names = <<>> /\ dir_model = [kind |-> "none"]

IdleModules == IdleCodegen /\ IdleSchema /\ IdleReload /\ IdleLayout

IdlePipeline ==
    /\ IdleExpand /\ active_relations = <<>> /\ expanded_entities = <<>>
    /\ IdleDiscover /\ IdlePlanning /\ IdleModules

IdleStages == IdleRegistry /\ IdleOntology /\ IdleFilter /\ IdleKey /\ IdleModules

\* A caller is about to call expand_entities on its seeds, with or without
\* its relevance map.
InitExpand ==
    /\ pc = "expand_call"
    /\ error = "none"
    /\ expand_args \in ExpandCalls
    /\ step1_entities \in SeqsUpTo(SeedRecords, MaxSeeds)
    /\ relevant_relations \in (IF PassesMap(expand_args) THEN RelevanceMaps ELSE {<<>>})
    /\ entity_types = {}
    /\ active_relations = <<>>
    /\ expanded_entities = <<>>
    /\ IdleLayer /\ IdleDiscover /\ IdlePlanning /\ IdleStages

\* Lines 8-10: the arguments are bound to the parameters.  The function has
\* the one parameter step1_entities, so a call that also passes the map, as a
\* second positional argument or as the keyword relevant_relations, raises
\* TypeError and the body is not entered.
ExpandCall ==
    /\ pc = "expand_call"
    /\ IF BindsArguments(ExpandParameters, expand_args)
       THEN /\ pc' = "expand_start"
            /\ UNCHANGED error
       ELSE /\ pc' = "raised"
            /\ error' = "TypeError"
    /\ UNCHANGED expandVars
    /\ UNCHANGED <<layerVars, discoverVars, planVars, stageVars>>

\* Lines 21-26: the seed set, then the active relations.  e["type"] raises
\* KeyError for a record without the key; the comprehension of line 25 reads
\* relevant_relations, which is no parameter, no local and no module global,
\* and raises NameError.
ExpandCollect ==
    /\ pc = "expand_start"
    /\ IF \E i \in 1..Len(step1_entities) : "type" \notin DOMAIN step1_entities[i]
       THEN /\ pc' = "raised"
            /\ error' = "KeyError"
            /\ UNCHANGED entity_types
       ELSE /\ entity_types' = {step1_entities[i].type : i \in 1..Len(step1_entities)}
            /\ IF NameBound("relevant_relations")
               THEN /\ pc' = "expand_while"
                    /\ UNCHANGED error
               ELSE /\ pc' = "raised"
                    /\ error' = "NameError"
    /\ UNCHANGED <<expand_args, step1_entities, relevant_relations, active_relations,
                   expanded_entities>>
    /\ UNCHANGED <<layerVars, discoverVars, planVars, stageVars>>

NextExpand == ExpandCall \/ ExpandCollect

SpecExpand == InitExpand /\ [][NextExpand]_vars

\* The same calls, where a call that can take a step takes it.
SpecExpandFair == SpecExpand /\ WF_vars(NextExpand)

----------------------------------------------------------------------------
(* Properties of expand_entities. *)

\* Every seed record of the call has a type.
AllTyped == \A i \in 1..Len(step1_entities) : "type" \in DOMAIN step1_entities[i]

\* The seed types of the call.
SeedTypes == {step1_entities[i].type : i \in 1..Len(step1_entities)}

\* The relation keys whose map value is a spelling of "yes".
YesKeys ==
    {relevant_relations[i][1] : i \in {j \in 1..Len(relevant_relations) :
        relevant_relations[j][2] \in {"yes", "YES", "Yes"}}}

\* All types that occur as a seed or as an endpoint of a key of the map.
Nodes == SeedTypes \cup UNION {{relevant_relations[i][1][1], relevant_relations[i][1][3]} :
                               i \in 1..Len(relevant_relations)}

\* S is closed when no key of K has exactly one endpoint in S.
Closed(S, K) == \A k \in K : (k[1] \in S) <=> (k[3] \in S)

\* The types connected to a seed by a path of keys of K walked in either
\* direction: the least closed set that contains the seeds.
Reachable(seeds, K) ==
    {n \in Nodes : \A S \in SUBSET Nodes : (seeds \subseteq S /\ Closed(S, K)) => n \in S}

\* A call on typed seeds and a relevance map has ended, by returning or by
\* raising.
ExpandEnded ==
    /\ pc \in {"expand_done", "raised"}
    /\ PassesMap(expand_args)
    /\ AllTyped

\* The call has returned its entity list and its active relations.
ExpandReturned == pc = "expand_done"

\* C1: for every seed list and every relevance map the call returns an entity
\* list, and the list holds exactly the types connected to a seed by a path
\* of 'yes' relations, each usable in both directions.
C1_ExpansionIsReachableSet ==
    ExpandEnded =>
        /\ ExpandReturned
        /\ Range(expanded_entities) = Reachable(SeedTypes, YesKeys)

\* C2: feeding the returned entity list back in as seeds, with the same map,
\* returns the same entity list: the call returns a list, and no 'yes'
\* relation leads from a type of the list to a type outside it.
C2_ExpansionIdempotent ==
    ExpandEnded =>
        /\ ExpandReturned
        /\ Closed(Range(expanded_entities), YesKeys)
        /\ Reachable(Range(expanded_entities), YesKeys) = Range(expanded_entities)

\* C3: whatever the relevance map is, a map without a 'yes' value included,
\* the call returns a list that holds every seed type.
C3_ExpansionMonotone ==
    (ExpandEnded /\ YesKeys = {}) =>
        /\ ExpandReturned
        /\ SeedTypes \subseteq Range(expanded_entities)

\* C4: the call returns as active relations the keys whose value lower-cased
\* is "yes" ("YES" among them), once each and in map order.
C4_ActiveRelationsAreYesKeys ==
    (ExpandEnded /\ \E i \in 1..Len(relevant_relations) : relevant_relations[i][2] = "YES") =>
        /\ ExpandReturned
        /\ Range(active_relations) = YesKeys
        /\ \A i, j \in 1..Len(active_relations) : i < j =>
              \E a, b \in 1..Len(relevant_relations) :
                 /\ a < b
                 /\ relevant_relations[a][1] = active_relations[i]
                 /\ relevant_relations[b][1] = active_relations[j]

\* C5: the expansion loop terminates: every call on typed seeds and a
\* relevance map leads to the return of the function.
C5_ExpansionTerminates ==
    (pc = "expand_call" /\ PassesMap(expand_args) /\ AllTyped) ~> ExpandReturned

\* C6: the returned entity list is strictly ascending in string order, and
\* the documented example (seed City, both relations 'yes') returns
\* [City, ContainerEvent, Facility] with both relations active in map order.
C6_ExpandedSorted ==
    ( /\ ExpandEnded
      /\ step1_entities = <<[type |-> "City"]>>
      /\ relevant_relations =
           << << <<"City", "has_facility", "Facility">>, "yes" >>,
              << <<"Facility", "hosts_event", "ContainerEvent">>, "yes" >> >> )
    => /\ ExpandReturned
       /\ \A i, j \in 1..Len(expanded_entities) :
             i < j => StrLess(expanded_entities[i], expanded_entities[j])
       /\ expanded_entities = <<"City", "ContainerEvent", "Facility">>
       /\ active_relations = << <<"City", "has_facility", "Facility">>,
                                <<"Facility", "hosts_event", "ContainerEvent">> >>

----------------------------------------------------------------------------
(* The relation index and its queries (engine.py). *)

\* RelationSchema.key
key(rel) == <<rel.from_entity, rel.name, rel.to_entity>>

\* Relation schemas an ontology can declare; one of them is a self-relation.
OntologyRelations ==
    { [name |-> "has_facility", from_entity |-> "City", to_entity |-> "Facility",
       description |-> "A city has facilities"],
      [name |-> "hosts_event", from_entity |-> "Facility", to_entity |-> "ContainerEvent",
       description |-> ""],
      [name |-> "part_of", from_entity |-> "Facility", to_entity |-> "Facility",
       description |-> "A facility is part of a facility"],
      [name |-> "has_event", from_entity |-> "Container", to_entity |-> "ContainerEvent",
       description |-> ""] }

\* A loaded relation index: a dict keyed by relation key, so no key repeats;
\* load_ontology fills it entity by entity, so the relations of one source
\* entity follow each other.
RelationIndexes ==
    {r \in SeqsUpTo(OntologyRelations, MaxRels + 1) :
        /\ \A i, j \in 1..Len(r) : i # j => key(r[i]) # key(r[j])
        /\ \A i, j, k \in 1..Len(r) :
              (i < j /\ j < k /\ r[i].from_entity = r[k].from_entity)
                 => r[j].from_entity = r[i].from_entity}

\* Mutant of list_relations_from: compares the target instead of the source.
list_relations_from_target(rels, entity_name) ==
    LET hit(r) == r.to_entity = entity_name IN SelectSeq(rels, hit)

\* SemanticLayer.list_relations_from
list_relations_from(rels, entity_name) ==
    LET hit(r) == r.from_entity = entity_name IN SelectSeq(rels, hit)

\* SemanticLayer.list_relations_to
list_relations_to(rels, entity_name) ==
    LET hit(r) == r.to_entity = entity_name IN SelectSeq(rels, hit)

\* SemanticLayer.list_relations: outgoing then incoming, not deduplicated.
list_relations(rels, entity_name) ==
    list_relations_from(rels, entity_name) \o list_relations_to(rels, entity_name)

----------------------------------------------------------------------------
(* discover_relations *)

\* Seed records: with a type, with an empty type, and without the key.
DiscoverSeedRecords ==
    {[type |-> n] : n \in {"City", "Facility", "ContainerEvent", ""}} \cup {[value |-> "Sydney"]}

\* dict.get(k): the value, or None without the key.
get(d, k) == IF k \in DOMAIN d THEN d[k] ELSE None

\* Truth value of an optional str.
Truthy(x) == x # None /\ x # ""

\* Mutant of AlreadySeen: the seen set is not consulted.
AlreadySeenIgnored(k, seenset) == FALSE

\* rel.key in seen
AlreadySeen(k, seenset) == k \in seenset

\* (rel.from_entity, rel.name, rel.to_entity, rel.description or "")
Candidate(rel) ==
    <<rel.from_entity, rel.name, rel.to_entity,
      IF Truthy(rel.description) THEN rel.description ELSE "">>

InitDiscover ==
    /\ pc = "discover_seed"
    /\ error = "none"
    /\ relations \in RelationIndexes
    /\ entities = <<>> /\ tools = <<>>
    /\ tools_by_relation = <<>> /\ tools_by_entity = <<>>
    /\ seed_entities \in SeqsUpTo(DiscoverSeedRecords, MaxSeeds)
    /\ seen = {}
    /\ candidates = <<>>
    /\ seed_i = 1
    /\ rel_list = <<>>
    /\ rel_j = 0
    /\ IdleExpand /\ active_relations = <<>> /\ expanded_entities = <<>>
    /\ IdlePlanning /\ IdleStages

\* Lines 23-28: the outer for loop takes the next seed, skips it without a
\* type, or starts the inner loop over list_relations(entity_type); after the
\* last seed the function returns candidates (line 41).
DiscoverSeed ==
    /\ pc = "discover_seed"
    /\ IF seed_i <= Len(seed_entities)
       THEN LET entity_type == get(seed_entities[seed_i], "type") IN
            IF ~Truthy(entity_type)
            THEN /\ seed_i' = seed_i + 1
                 /\ UNCHANGED <<pc, rel_list, rel_j>>
            ELSE /\ rel_list' = list_relations(relations, entity_type)
                 /\ rel_j' = 1
                 /\ pc' = "discover_rel"
                 /\ UNCHANGED seed_i
       ELSE /\ pc' = "discover_done"
            /\ UNCHANGED <<seed_i, rel_list, rel_j>>
    /\ UNCHANGED <<error, seed_entities, seen, candidates>>
    /\ UNCHANGED <<layerVars, expandVars, planVars, stageVars>>

\* Lines 28-39: one iteration of the inner for loop, or its end.
DiscoverRel ==
    /\ pc = "discover_rel"
    /\ IF rel_j <= Len(rel_list)
       THEN LET rel == rel_list[rel_j] IN
            /\ IF AlreadySeen(key(rel), seen)
               THEN UNCHANGED <<seen, candidates>>
               ELSE /\ seen' = seen \cup {key(rel)}
                    /\ candidates' = Append(candidates, Candidate(rel))
            /\ rel_j' = rel_j + 1
            /\ UNCHANGED <<pc, seed_i>>
       ELSE /\ seed_i' = seed_i + 1
            /\ pc' = "discover_seed"
            /\ UNCHANGED <<seen, candidates, rel_j>>
    /\ UNCHANGED <<error, seed_entities, rel_list>>
    /\ UNCHANGED <<layerVars, expandVars, planVars, stageVars>>

NextDiscover == DiscoverSeed \/ DiscoverRel

SpecDiscover == InitDiscover /\ [][NextDiscover]_vars

----------------------------------------------------------------------------
(* Properties of discover_relations. *)

\* The key of a candidate tuple.
CandidateKey(c) == <<c[1], c[2], c[3]>>

\* The types of the seeds that carry a non-empty type, in input order.
RECURSIVE TypedSeeds(_)
TypedSeeds(seeds) ==
    IF seeds = <<>> THEN <<>>
    ELSE (IF "type" \in DOMAIN seeds[1] /\ seeds[1].type # ""
          THEN <<seeds[1].type>> ELSE <<>>) \o TypedSeeds(Tail(seeds))

\* Everything the seeds encounter, in order: per seed the outgoing relations
\* of the index, then the incoming ones.
RECURSIVE Encountered(_)
Encountered(types) ==
    IF types = <<>> THEN <<>>
    ELSE LET out(r) == r.from_entity = types[1]
             inc(r) == r.to_entity = types[1]
         IN  SelectSeq(relations, out) \o SelectSeq(relations, inc) \o Encountered(Tail(types))

\* A sequence without the later occurrences of a key.
RECURSIVE FirstOccurrences(_, _)
FirstOccurrences(rels, ks) ==
    IF rels = <<>> THEN <<>>
    ELSE IF key(rels[1]) \in ks THEN FirstOccurrences(Tail(rels), ks)
    ELSE <<rels[1]>> \o FirstOccurrences(Tail(rels), ks \cup {key(rels[1])})

\* C7: no relation key occurs twice in the candidates, and the returned list
\* is the first occurrences, in order of first encounter over the seeds.
C7_DiscoveryUnique ==
    /\ \A i, j \in 1..Len(candidates) :
          i # j => CandidateKey(candidates[i]) # CandidateKey(candidates[j])
    /\ pc = "discover_done" =>
          LET first == FirstOccurrences(Encountered(TypedSeeds(seed_entities)), {})
          IN  /\ Len(candidates) = Len(first)
              /\ \A i \in 1..Len(first) :
                    /\ CandidateKey(candidates[i]) = key(first[i])
                    /\ candidates[i][4] = first[i].description

\* Witness of C7: the call returned; a seed type was repeated, the index holds
\* a self-relation of that type, and the self-relation is listed.
C7_Witness ==
    /\ pc = "discover_done"
    /\ seed_entities = <<[type |-> "Facility"], [type |-> "Facility"]>>
    /\ Len(relations) = MaxRels + 1
    /\ \E i \in 1..Len(candidates) : candidates[i][2] = "part_of"
    /\ Len(candidates) = Len(relations)

\* C8: the returned keys are exactly the keys of the relations that have a
\* seed type as source or target; a seed without a type or with an empty type
\* adds nothing and raises nothing.
C8_DiscoveryComplete ==
    pc = "discover_done" =>
        /\ {CandidateKey(candidates[i]) : i \in 1..Len(candidates)} =
             {key(relations[i]) : i \in {j \in 1..Len(relations) :
                 \E s \in 1..Len(seed_entities) :
                    /\ "type" \in DOMAIN seed_entities[s]
                    /\ seed_entities[s].type # ""
                    /\ \/ relations[j].from_entity = seed_entities[s].type
                       \/ relations[j].to_entity = seed_entities[s].type}}
        /\ error = "none"

\* Witness of C8: the call returned for a seed without a type followed by a
\* seed that is only the target of a relation, which is listed, while another
\* relation of the index is not.
C8_Witness ==
    /\ pc = "discover_done"
    /\ seed_entities = <<[value |-> "Sydney"], [type |-> "ContainerEvent"]>>
    /\ Len(candidates) = 2
    /\ Len(relations) = 3
    /\ error = "none"


----------------------------------------------------------------------------
(* The tool registry and the derived indices (tools.py, engine.py). *)

\* A relation association that is not given (None); a tuple, so that it can
\* be compared with a relation key.
NoRelation == <<>>

\* TOOLS_REGISTRY after importing semantic_layer/tools.py, in registration order.
ToolsRegistry ==
    << [name |-> "get_terminals_by_city", entity |-> None,
        relation |-> <<"City", "has_facility", "Facility">>],
       [name |-> "get_events_by_facility", entity |-> None,
        relation |-> <<"Facility", "hosts_event", "ContainerEvent">>],
       [name |-> "get_events_by_container", entity |-> None,
        relation |-> <<"Container", "has_event", "ContainerEvent">>],
       [name |-> "get_shipment_by_container", entity |-> None,
        relation |-> <<"Container", "belongs_to", "Shipment">>],
       [name |-> "get_containers_by_shipment", entity |-> None,
        relation |-> <<"Shipment", "has_container", "Container">>],
       [name |-> "get_container_details", entity |-> "Container", relation |-> NoRelation],
       [name |-> "get_shipment_details", entity |-> "Shipment", relation |-> NoRelation],
       [name |-> "get_facility_details", entity |-> "Facility", relation |-> NoRelation] >>

\* load_tools, lines 122-140: the ToolInfo of one registry entry.
ToolInfoOf(meta) ==
    [name |-> meta.name,
     kind |-> IF meta.relation # NoRelation THEN "relation"
              ELSE IF Truthy(meta.entity) THEN "entity"
              ELSE "ValueError",
     associated_relation |-> meta.relation,
     associated_entity |-> meta.entity]

\* load_tools, lines 113-142, for a registry whose entries all carry an association.
load_tools(registry) == [i \in 1..Len(registry) |-> ToolInfoOf(registry[i])]

\* defaultdict(list)[k].append(v) on a dict given as its item sequence.
AppendUnder(d, k, v) ==
    IF \E i \in 1..Len(d) : d[i][1] = k
    THEN [i \in 1..Len(d) |-> IF d[i][1] = k THEN <<k, Append(d[i][2], v)>> ELSE d[i]]
    ELSE Append(d, <<k, <<v>>>>)

\* build_semantic_layer, lines 159-161: the relation index of a tool list.
RECURSIVE BuildToolsByRelation(_, _)
BuildToolsByRelation(ts, d) ==
    IF ts = <<>> THEN d
    ELSE BuildToolsByRelation(Tail(ts),
            IF ts[1].kind = "relation" /\ ts[1].associated_relation # NoRelation
            THEN AppendUnder(d, ts[1].associated_relation, ts[1]) ELSE d)

\* The entity index filled for every tool that names an entity, whatever its kind.
RECURSIVE BuildToolsByEntityByField(_, _)
BuildToolsByEntityByField(ts, d) ==
    IF ts = <<>> THEN d
    ELSE BuildToolsByEntityByField(Tail(ts),
            IF Truthy(ts[1].associated_entity)
            THEN AppendUnder(d, ts[1].associated_entity, ts[1]) ELSE d)

\* build_semantic_layer, lines 159-163: the entity index of a tool list.
RECURSIVE BuildToolsByEntity(_, _)
BuildToolsByEntity(ts, d) ==
    IF ts = <<>> THEN d
    ELSE BuildToolsByEntity(Tail(ts),
            IF ts[1].kind = "relation" /\ ts[1].associated_relation # NoRelation THEN d
            ELSE IF ts[1].kind = "entity" /\ ts[1].associated_entity # None
            THEN AppendUnder(d, ts[1].associated_entity, ts[1]) ELSE d)

\* dict.get(k, default) on a dict given as its item sequence.
DictGet(d, k, default) ==
    IF \E i \in 1..Len(d) : d[i][1] = k
    THEN d[CHOOSE i \in 1..Len(d) : d[i][1] = k][2]
    ELSE default

\* defaultdict indexing d[k]: a missing key is inserted with an empty list.
IndexAfterGetItem(d, k) ==
    IF \E i \in 1..Len(d) : d[i][1] = k THEN d ELSE Append(d, <<k, <<>>>>)

\* The index after d.get(k, []): get adds no key, also to a defaultdict.
IndexAfterGet(d, k) == d

\* The index after one get per key of a list.
RECURSIVE IndexAfterGets(_, _)
IndexAfterGets(d, ks) ==
    IF ks = <<>> THEN d ELSE IndexAfterGets(IndexAfterGet(d, ks[1]), Tail(ks))

\* A lookup that treats a relation as undirected.
get_tools_for_relation_undirected(from_entity, name, to_entity) ==
    DictGet(tools_by_relation, <<from_entity, name, to_entity>>,
            DictGet(tools_by_relation, <<to_entity, name, from_entity>>, <<>>))

\* SemanticLayer.get_tools_for_relation
get_tools_for_relation(from_entity, name, to_entity) ==
    DictGet(tools_by_relation, <<from_entity, name, to_entity>>, <<>>)

\* SemanticLayer.get_tools_for_entity
get_tools_for_entity(entity_name) == DictGet(tools_by_entity, entity_name, <<>>)

\* The relationships the ontology declares: those the declared tools refer to.
DeclaredRelationships ==
    [i \in 1..5 |-> [name |-> ToolsRegistry[i].relation[2],
                     from_entity |-> ToolsRegistry[i].relation[1],
                     to_entity |-> ToolsRegistry[i].relation[3],
                     description |-> ""]]

\* ontology.py, lines 114-145: the relations dict is filled entity by entity,
\* in the order of the entities, each entity's relationships in their order.
RECURSIVE RelationsByEntity(_, _)
RelationsByEntity(names, rels) ==
    IF names = <<>> THEN <<>>
    ELSE list_relations_from(rels, names[1]) \o RelationsByEntity(Tail(names), rels)

\* The relation schemas load_ontology returns for that ontology, whose
\* entities are read in the order of their names.
ToolRelations == RelationsByEntity(sorted(EntityNames), DeclaredRelationships)

\* The entity schemas of that ontology: name and relationships as (name,
\* target) items.
ToolEntities ==
    LET names == sorted(EntityNames)
        rs(n) == list_relations_from(ToolRelations, n)
    IN [i \in 1..Len(names) |->
          [name |-> names[i],
           relationships |-> [k \in 1..Len(rs(names[i])) |->
                                <<rs(names[i])[k].name, rs(names[i])[k].to_entity>>]]]

\* The registry as build_semantic_layer (engine.py, line 174) leaves it:
\* load_tools has cleared it and the import of the tool modules has run
\* their declarations.
BuiltRegistry ==
    /\ TOOLS_REGISTRY = ToolsRegistry
    /\ decl_log = [i \in 1..Len(ToolsRegistry) |-> [meta |-> ToolsRegistry[i], raised |-> FALSE]]
    /\ lookup = [kind |-> "none"]

\* The semantic layer as build_semantic_layer leaves it.
BuiltLayer ==
    /\ entities = ToolEntities
    /\ relations = ToolRelations
    /\ tools = load_tools(ToolsRegistry)
    /\ tools_by_relation = BuildToolsByRelation(load_tools(ToolsRegistry), <<>>)
    /\ tools_by_entity = BuildToolsByEntity(load_tools(ToolsRegistry), <<>>)

----------------------------------------------------------------------------
(* run_planning *)

\* Entity lists and relation lists run_planning is called with; the last key
\* is the reverse of a relation and is not in the ontology.
PlanEntityInputs == {"City", "Container", "Facility"}

PlanRelationInputs ==
    { <<"City", "has_facility", "Facility">>,
      <<"Container", "has_event", "ContainerEvent">>,
      <<"Facility", "has_facility", "City">> }

\* What the planner can answer: steps {id, tool, inputs, output}.  An input is
\* a literal, or a variable name or field path whose head is the variable.
PlanStepValues ==
    [id : {1, 2},
     tool : {"get_container_details", "get_weather"},
     inputs : {<<[literal |-> "HASU1234567"]>>, <<[var |-> "shipment"]>>},
     output : {"shipment", "events"}]

Plans == {<<>>} \cup [1..1 -> PlanStepValues] \cup [1..2 -> PlanStepValues]

\* code_generation.py, lines 160-165: re.search of the fence pattern (fence,
\* optional python, whitespace, lazy group, fence) with DOTALL and
\* IGNORECASE.  The match starts at the first fence, takes
\* "python" in any case and the whitespace after it, and ends at the next
\* fence; group(1) is what lies between.  No later fence, no match.
FenceMatch(code) ==
    LET fence == Fence
        i == find(code, fence, 1)
        p0 == i + 3
        p1 == IF p0 + 5 <= Len(code) /\ lower(SubSeq(code, p0, p0 + 5)) = Chars("python")
              THEN p0 + 6 ELSE p0
        p2 == SkipWhitespace(code, p1)
        j == find(code, fence, p2)
    IN IF i > 0 /\ j > 0
       THEN [matched |-> TRUE, group1 |-> SubSeq(code, p2, j - 1)]
       ELSE [matched |-> FALSE]

\* PythonCodeGen._postprocess_code, lines 154-169.
postprocess_code(code, strip_fences) ==
    LET stripped == strip(code)
        m == FenceMatch(stripped)
    IN IF strip_fences /\ m.matched THEN strip(strip(m.group1)) ELSE strip(stripped)

\* ast.parse(code, mode="exec") on the texts the model works with: the
\* assignment and the empty module parse, everything else (an open bracket,
\* prose, a fence) is a SyntaxError.
ParsesAsPython(code) == code \in {Chars("result = events"), Chars("")}

\* A forward that checks the cleaned text and returns the raw text.
forwardReturningRaw(text, validate, strip_fences) ==
    LET code == postprocess_code(text, strip_fences) IN
    IF validate /\ ~ParsesAsPython(code)
    THEN [kind |-> "raise", error |-> "ValueError"]
    ELSE [kind |-> "return", python_code |-> text]

\* PythonCodeGen.forward, lines 141-150, on the generator's answer.
forward(text, validate, strip_fences) ==
    LET code == postprocess_code(text, strip_fences) IN
    IF validate /\ ~ParsesAsPython(code)
    THEN [kind |-> "raise", error |-> "ValueError"]
    ELSE [kind |-> "return", python_code |-> code]

\* What the generator's model can answer: prose or none, an opening fence
\* with or without a language tag or none, a body, a closing fence or none.
ModelAnswers ==
    {prefix \o open \o body \o close :
        prefix \in {Chars(""), Chars("Here is the code:") \o Newline},
        open \in {Chars(""), Fence, Fence \o Chars("python") \o Newline,
                  Fence \o Chars("Python") \o Chars(" ")},
        body \in {Chars("result = events"), Chars("result = ("), Chars("")},
        close \in {Chars(""), Newline \o Fence}}

\* The answers run_planning's generator is given here: valid code, invalid
\* code, and valid code in a fence.
GeneratedTexts ==
    {Chars("result = events"), Chars("result = ("),
     Fence \o Chars("python") \o Newline \o Chars("result = events")
        \o Newline \o Fence}

\* Lines 51-59: tools of the active relations, then tools of the expanded entities.
RECURSIVE RelationTools(_)
RelationTools(rels) ==
    IF rels = <<>> THEN <<>>
    ELSE get_tools_for_relation(rels[1][1], rels[1][2], rels[1][3]) \o RelationTools(Tail(rels))

RECURSIVE EntityTools(_)
EntityTools(names) ==
    IF names = <<>> THEN <<>>
    ELSE get_tools_for_entity(names[1]) \o EntityTools(Tail(names))

CandidateToolsList(rels, names) == RelationTools(rels) \o EntityTools(names)

\* Lines 61-67: the first tool of each name.
RECURSIVE UniqueTools(_, _)
UniqueTools(ts, seen_tools) ==
    IF ts = <<>> THEN <<>>
    ELSE IF ts[1].name \in seen_tools THEN UniqueTools(Tail(ts), seen_tools)
    ELSE <<ts[1]>> \o UniqueTools(Tail(ts), seen_tools \cup {ts[1].name})

\* A guard that returns early only when both lists are empty.
PlanningShortCircuitsOnBoth(extracted, expanded) == extracted = <<>> /\ expanded = <<>>

\* Line 44: not extracted_entities or not expanded_entities
PlanningShortCircuits(extracted, expanded) == extracted = <<>> \/ expanded = <<>>

\* An oracle failure that is swallowed: the function goes on with its next step.
AfterOracleErrorSwallowed(at) ==
    IF at = "plan_planner" THEN "plan_codegen"
    ELSE IF at = "plan_codegen" THEN "plan_done"
    ELSE at

\* Where a function is after an oracle call raised: no handler surrounds the
\* calls, the exception leaves the function.
AfterOracleError(at) == "raised"

\* Line 121: {tool["name"]: tool for tool in candidate_tools}
RECURSIVE ToolsDict(_, _)
ToolsDict(ts, out) ==
    IF ts = <<>> THEN out
    ELSE ToolsDict(Tail(ts),
                   IF \E i \in 1..Len(out) : out[i][1] = ts[1].name
                   THEN [i \in 1..Len(out) |->
                           IF out[i][1] = ts[1].name THEN <<ts[1].name, ts[1]>> ELSE out[i]]
                   ELSE Append(out, <<ts[1].name, ts[1]>>))

InitPlanning ==
    /\ pc = "plan_start"
    /\ error = "none"
    /\ BuiltLayer
    /\ extracted_entities \in {<<>>, <<[type |-> "City", value |-> "Sydney"]>>}
    /\ expanded_entities \in SeqsUpTo(PlanEntityInputs, MaxSeeds)
    /\ active_relations \in SeqsUpTo(PlanRelationInputs, MaxRels)
    /\ candidate_tools = <<>>
    /\ planner_calls = <<>>
    /\ plan_steps = <<>>
    /\ codegen_calls = <<>>
    /\ python_code = Chars("")
    /\ returned = NotReturned
    /\ generated = <<>> /\ forward_result = [kind |-> "none"]
    /\ validate_syntax \in BOOLEAN
    /\ strip_markdown_fences = TRUE
    /\ IdleExpand /\ IdleDiscover
    /\ BuiltRegistry /\ IdleOntology /\ IdleFilter /\ IdleKey
    /\ IdleSchema /\ IdleReload /\ IdleLayout

\* Lines 44-45: empty input returns ([], "").
PlanGuard ==
    /\ pc = "plan_start"
    /\ IF PlanningShortCircuits(extracted_entities, expanded_entities)
       THEN /\ returned' = <<<<>>, Chars("")>>
            /\ pc' = "plan_done"
       ELSE /\ pc' = "plan_tools"
            /\ UNCHANGED returned
    /\ UNCHANGED <<error, extracted_entities, candidate_tools, planner_calls,
                   plan_steps, codegen_calls, python_code>>
    /\ UNCHANGED <<layerVars, expandVars, discoverVars, stageVars>>

\* Lines 50-70: the candidate tools, deduplicated by name.
PlanCollectTools ==
    /\ pc = "plan_tools"
    /\ candidate_tools' = UniqueTools(CandidateToolsList(active_relations, expanded_entities), {})
    /\ tools_by_relation' = IndexAfterGets(tools_by_relation, active_relations)
    /\ tools_by_entity' = IndexAfterGets(tools_by_entity, expanded_entities)
    /\ pc' = "plan_schemas"
    /\ UNCHANGED <<error, extracted_entities, planner_calls, plan_steps, codegen_calls,
                   python_code, returned>>
    /\ UNCHANGED <<entities, relations, tools, expandVars, discoverVars, stageVars>>

\* Lines 72-104: the schema lookups; entities[e] and relations[rel] raise
\* KeyError for a name or key the ontology does not hold.
PlanSchemas ==
    /\ pc = "plan_schemas"
    /\ IF /\ \A i \in 1..Len(expanded_entities) : expanded_entities[i] \in {entities[j].name : j \in 1..Len(entities)}
          /\ \A i \in 1..Len(active_relations) :
                \E j \in 1..Len(relations) : key(relations[j]) = active_relations[i]
       THEN /\ pc' = "plan_planner"
            /\ UNCHANGED error
       ELSE /\ pc' = "raised"
            /\ error' = "KeyError"
    /\ UNCHANGED planVars
    /\ UNCHANGED <<layerVars, expandVars, discoverVars, stageVars>>

\* Lines 107-117: the planner is called with the candidate tools and answers
\* with any step list, or the call raises.
PlannerCall ==
    /\ pc = "plan_planner"
    /\ planner_calls' = Append(planner_calls, candidate_tools)
    /\ \/ /\ \E steps \in Plans : plan_steps' = steps
          /\ pc' = "plan_codegen"
          /\ UNCHANGED error
       \/ /\ pc' = AfterOracleError(pc)
          /\ error' = "OracleError"
          /\ UNCHANGED plan_steps
    /\ UNCHANGED <<extracted_entities, candidate_tools, codegen_calls,
                   python_code, returned>>
    /\ UNCHANGED <<layerVars, expandVars, discoverVars, stageVars>>

\* Lines 121-131: the code generator is called with plan_steps; a checking
\* PythonCodeGen raises ValueError for text that does not parse, otherwise
\* run_planning returns (plan_steps, python_code); or the call raises.
CodegenCall ==
    /\ pc = "plan_codegen"
    /\ codegen_calls' = Append(codegen_calls,
                               [plan |-> plan_steps, tools |-> ToolsDict(candidate_tools, <<>>)])
    /\ \/ \E text \in GeneratedTexts :
             LET result == forward(text, validate_syntax, strip_markdown_fences) IN
             IF result.kind = "return"
             THEN /\ python_code' = result.python_code
                  /\ returned' = <<plan_steps, result.python_code>>
                  /\ pc' = "plan_done"
                  /\ UNCHANGED error
             ELSE /\ pc' = "raised"
                  /\ error' = result.error
                  /\ UNCHANGED <<python_code, returned>>
       \/ /\ pc' = AfterOracleError(pc)
          /\ error' = "OracleError"
          /\ UNCHANGED <<python_code, returned>>
    /\ UNCHANGED <<extracted_entities, candidate_tools, planner_calls, plan_steps>>
    /\ UNCHANGED <<layerVars, expandVars, discoverVars, stageVars>>

NextPlanning == PlanGuard \/ PlanCollectTools \/ PlanSchemas \/ PlannerCall \/ CodegenCall

SpecPlanning == InitPlanning /\ [][NextPlanning]_vars


----------------------------------------------------------------------------
(* Properties of run_planning. *)

\* The list the tool selection contract describes: entity tools in input
\* order, then relation tools in input order, first occurrence of each name.
SelectedEntityFirst ==
    UniqueTools(EntityTools(expanded_entities) \o RelationTools(active_relations), {})

\* C9: the candidate tools handed to plan synthesis are the tools of the
\* expanded entities, then the tools of the active relations, deduplicated by
\* name keeping the first occurrence; no tool name occurs twice.
C9_CandidatesEntityFirst ==
    \A c \in 1..Len(planner_calls) :
        /\ planner_calls[c] = SelectedEntityFirst
        /\ \A i, j \in 1..Len(planner_calls[c]) :
              i # j => planner_calls[c][i].name # planner_calls[c][j].name

\* The names of the candidate tools supplied to the planner.
CandidateNames == {candidate_tools[i].name : i \in 1..Len(candidate_tools)}

\* The plan invariants: ids strictly increasing, every tool a candidate, every
\* variable an input names the output of a strictly earlier step, every
\* output name used once.
PlanValid(plan) ==
    /\ \A i, j \in 1..Len(plan) : i < j => plan[i].id < plan[j].id
    /\ \A i \in 1..Len(plan) : plan[i].tool \in CandidateNames
    /\ \A i \in 1..Len(plan) : \A k \in 1..Len(plan[i].inputs) :
          "var" \in DOMAIN plan[i].inputs[k] =>
             \E j \in 1..(i - 1) : plan[j].output = plan[i].inputs[k].var
    /\ \A i, j \in 1..Len(plan) : i # j => plan[i].output # plan[j].output

\* C10: a plan that violates a plan invariant is rejected: it is never passed
\* to the code generator and never returned.
C10_InvalidPlanRejected ==
    /\ \A c \in 1..Len(codegen_calls) : PlanValid(codegen_calls[c].plan)
    /\ (pc = "plan_done" /\ planner_calls # <<>>) => PlanValid(returned[1])


----------------------------------------------------------------------------
(* Tool registration: @semantic_tool, load_tools, build_semantic_layer and  *)
(* the lookups of the semantic layer.                                       *)

\* Number of @semantic_tool declarations the imported tool modules make.
MaxTools == 2

\* The arguments of the declarations: name, entity and relation.
ToolNames == {"get_terminals_by_city", "get_facility_details", "get_weather"}

DeclaredEntities == {None, "", "City", "Facility"}

DeclaredRelations ==
    { NoRelation,
      <<"City", "has_facility", "Facility">>,
      <<"Facility", "has_facility", "City">> }

\* The keys the lookups are called with; Planet and orbits are in no ontology.
LookupEntities == {"City", "Facility", "Planet", ""}

LookupRelations ==
    { <<"City", "has_facility", "Facility">>,
      <<"Facility", "has_facility", "City">>,
      <<"Planet", "orbits", "Star">> }

\* d[k] = v on a dict of records keyed by their name field.
SetByName(d, v) ==
    IF \E i \in 1..Len(d) : d[i].name = v.name
    THEN [i \in 1..Len(d) |-> IF d[i].name = v.name THEN v ELSE d[i]]
    ELSE Append(d, v)

\* semantic_tool, line 25: the consistency check of the decorator.
Inconsistent(entity, relation) ==
    /\ Truthy(entity)
    /\ relation # NoRelation
    /\ entity # relation[1]

\* load_tools after TOOLS_REGISTRY.clear(), while the tool modules are being
\* imported; load_ontology has returned the ontology.
InitRegistry ==
    /\ pc = "importing"
    /\ error = "none"
    /\ entities = ToolEntities
    /\ relations = ToolRelations
    /\ tools = <<>> /\ tools_by_relation = <<>> /\ tools_by_entity = <<>>
    /\ TOOLS_REGISTRY = <<>>
    /\ decl_log = <<>>
    /\ lookup = [kind |-> "none"]
    /\ IdlePipeline /\ IdleOntology /\ IdleFilter /\ IdleKey

\* One @semantic_tool(name, entity, relation) declaration of an imported
\* module: ValueError for an entity that is not the relation's source (the
\* import, and load_tools with it, fails), otherwise TOOLS_REGISTRY[name] is set.
SemanticTool ==
    /\ pc = "importing"
    /\ Len(decl_log) < MaxTools
    /\ \E n \in ToolNames, e \in DeclaredEntities, r \in DeclaredRelations :
          LET meta == [name |-> n, entity |-> e, relation |-> r] IN
          IF Inconsistent(e, r)
          THEN /\ pc' = "raised"
               /\ error' = "ValueError"
               /\ decl_log' = Append(decl_log, [meta |-> meta, raised |-> TRUE])
               /\ UNCHANGED TOOLS_REGISTRY
          ELSE /\ TOOLS_REGISTRY' = SetByName(TOOLS_REGISTRY, meta)
               /\ decl_log' = Append(decl_log, [meta |-> meta, raised |-> FALSE])
               /\ UNCHANGED <<pc, error>>
    /\ UNCHANGED <<layerVars, lookup>>
    /\ UNCHANGED <<pipelineVars, ontologyVars, filterVars, keyVars>>

\* load_tools, lines 113-142, and build_semantic_layer, lines 155-171: the
\* ToolInfo of every registry entry (ValueError for an entry with neither
\* association) and the two indices.
BuildSemanticLayer ==
    /\ pc = "importing"
    /\ IF \E i \in 1..Len(TOOLS_REGISTRY) : ToolInfoOf(TOOLS_REGISTRY[i]).kind = "ValueError"
       THEN /\ pc' = "raised"
            /\ error' = "ValueError"
            /\ UNCHANGED <<tools, tools_by_relation, tools_by_entity>>
       ELSE /\ tools' = load_tools(TOOLS_REGISTRY)
            /\ tools_by_relation' = BuildToolsByRelation(load_tools(TOOLS_REGISTRY), <<>>)
            /\ tools_by_entity' = BuildToolsByEntity(load_tools(TOOLS_REGISTRY), <<>>)
            /\ pc' = "built"
            /\ UNCHANGED error
    /\ UNCHANGED <<entities, relations, registryVars>>
    /\ UNCHANGED <<pipelineVars, ontologyVars, filterVars, keyVars>>

\* A call of get_tools_for_relation on the built layer.
LookupRelation ==
    /\ pc \in {"built", "looked"}
    /\ \E k \in LookupRelations :
          /\ lookup' = [kind |-> "relation", key |-> k,
                        result |-> get_tools_for_relation(k[1], k[2], k[3])]
          /\ tools_by_relation' = IndexAfterGet(tools_by_relation, k)
    /\ pc' = "looked"
    /\ UNCHANGED <<error, entities, relations, tools, tools_by_entity>>
    /\ UNCHANGED <<TOOLS_REGISTRY, decl_log>>
    /\ UNCHANGED <<pipelineVars, ontologyVars, filterVars, keyVars>>

\* A call of get_tools_for_entity on the built layer.
LookupEntity ==
    /\ pc \in {"built", "looked"}
    /\ \E n \in LookupEntities :
          /\ lookup' = [kind |-> "entity", key |-> n, result |-> get_tools_for_entity(n)]
          /\ tools_by_entity' = IndexAfterGet(tools_by_entity, n)
    /\ pc' = "looked"
    /\ UNCHANGED <<error, entities, relations, tools, tools_by_relation>>
    /\ UNCHANGED <<TOOLS_REGISTRY, decl_log>>
    /\ UNCHANGED <<pipelineVars, ontologyVars, filterVars, keyVars>>

NextRegistry == SemanticTool \/ BuildSemanticLayer \/ LookupRelation \/ LookupEntity

SpecRegistry == InitRegistry /\ [][NextRegistry]_vars

----------------------------------------------------------------------------
(* Properties of the tool registry and the semantic layer. *)

\* The semantic layer has been built.
LayerBuilt == pc \in {"built", "looked"}

\* All value lists of an index, concatenated.
RECURSIVE IndexValues(_)
IndexValues(d) == IF d = <<>> THEN <<>> ELSE d[1][2] \o IndexValues(Tail(d))

\* How often the tool named n occurs in a list of ToolInfo.
Occurrences(ts, n) == Cardinality({i \in 1..Len(ts) : ts[i].name = n})

\* C11: after build_semantic_layer every registered tool occurs exactly once
\* in the value lists of tools_by_entity and tools_by_relation taken together,
\* so in exactly one index, and the total length of the value lists is the
\* number of registered tools; also for tools declaring both associations.
C11_IndicesPartitionTools ==
    LayerBuilt =>
       /\ \A i \in 1..Len(tools) :
             Occurrences(IndexValues(tools_by_entity), tools[i].name)
               + Occurrences(IndexValues(tools_by_relation), tools[i].name) = 1
       /\ Len(IndexValues(tools_by_entity)) + Len(IndexValues(tools_by_relation))
             = Len(tools)
       /\ \A i \in 1..Len(tools_by_relation) : \A j \in 1..Len(tools_by_relation[i][2]) :
             tools_by_relation[i][2][j].associated_relation = tools_by_relation[i][1]
       /\ \A i \in 1..Len(tools_by_entity) : \A j \in 1..Len(tools_by_entity[i][2]) :
             tools_by_entity[i][2][j].associated_entity = tools_by_entity[i][1]

\* A layer built from two tools, one of which declares both an entity and a
\* relation.
C11_Witness ==
    /\ pc = "built"
    /\ Len(tools) = 2
    /\ \E i \in 1..Len(tools) :
          /\ tools[i].associated_entity = "City"
          /\ tools[i].associated_relation = <<"City", "has_facility", "Facility">>
    /\ tools_by_entity # <<>>

\* C12: every ToolInfo of the semantic layer has exactly one of
\* associated_entity and associated_relation set, never both, never neither.
C12_ExactlyOneAssociation ==
    LayerBuilt =>
       \A i \in 1..Len(tools) :
          (tools[i].associated_entity # None) # (tools[i].associated_relation # NoRelation)

\* C13: a declaration with neither association, or with an entity that is not
\* the relation's source, fails when it is made and leaves no entry in the
\* registry.
C13_InvalidDeclarationRejected ==
    /\ \A i \in 1..Len(decl_log) :
          LET m == decl_log[i].meta IN
          (  (~Truthy(m.entity) /\ m.relation = NoRelation)
          \/ Inconsistent(m.entity, m.relation) ) => decl_log[i].raised
    /\ \A i \in 1..Len(TOOLS_REGISTRY) :
          LET m == TOOLS_REGISTRY[i] IN
          /\ Truthy(m.entity) \/ m.relation # NoRelation
          /\ ~Inconsistent(m.entity, m.relation)

\* The tools of the layer associated with the key of the last lookup.
ToolsAssociatedWithLookup ==
    { i \in 1..Len(tools) :
        \/ /\ lookup.kind = "relation" /\ tools[i].kind = "relation"
           /\ tools[i].associated_relation = lookup.key
        \/ /\ lookup.kind = "entity" /\ tools[i].kind = "entity"
           /\ tools[i].associated_entity = lookup.key }

\* C20: get_tools_for_relation and get_tools_for_entity return the empty list
\* and raise nothing for a key no tool is associated with, also for names and
\* triples outside the ontology and for the reverse of a relation with tools.
C20_LookupOfUnknownKeyIsEmpty ==
    pc = "looked" =>
       /\ error = "none"
       /\ ToolsAssociatedWithLookup = {} => lookup.result = <<>>
       /\ {lookup.result[j].name : j \in 1..Len(lookup.result)}
             = {tools[i].name : i \in ToolsAssociatedWithLookup}

\* The reverse of a relation that has a tool was looked up, and nothing came
\* back.
C20_Witness ==
    /\ pc = "looked"
    /\ lookup.kind = "relation"
    /\ lookup.key = <<"Facility", "has_facility", "City">>
    /\ \E i \in 1..Len(tools) :
          tools[i].associated_relation = <<"City", "has_facility", "Facility">>
    /\ lookup.result = <<>>

----------------------------------------------------------------------------
(* load_ontology on a directory of YAML fragments. *)

\* Number of YAML files in the ontology directory.
MaxFrags == 2

\* The relationships mappings an entity document can carry, as (name, target)
\* items: none, one, two, a target that is no entity, and an empty target.
RelationshipCfgs ==
    { <<>>,
      << <<"has_facility", "Facility">> >>,
      << <<"part_of", "Facility">> >>,
      << <<"goes_to", "Planet">> >>,
      << <<"has_facility", "Facility">>, <<"part_of", "City">> >>,
      << <<"part_of", "">> >> }

\* What _extract_entities_from_payload returns for a file: a dict from entity
\* name to its configuration, here the relationships mapping.
Fragments ==
    {<<>>}
      \cup { << <<n, c>> >> : n \in {"City", "Facility"}, c \in RelationshipCfgs }
      \cup { << <<"City", c>>, <<"Facility", d>> >> : c, d \in RelationshipCfgs }
      \cup { << <<"Facility", c>>, <<"City", d>> >> : c, d \in RelationshipCfgs }

\* The keys of a dict.
Keys(d) == {d[i][1] : i \in 1..Len(d)}

\* A duplicate check that never fires.
IsDuplicateNever(entity_name, payload) == FALSE

\* Line 90: entity_name in entities_payload.
IsDuplicate(entity_name, payload) == entity_name \in Keys(payload)

\* d[k] = v on a dict.
SetItem(d, k, v) ==
    IF k \in Keys(d)
    THEN [i \in 1..Len(d) |-> IF d[i][1] = k THEN <<k, v>> ELSE d[i]]
    ELSE Append(d, <<k, v>>)

\* Lines 89-93 for the items of one file: line 91 raises for one of them.
HasDuplicate(extracted, payload) ==
    \E i \in 1..Len(extracted) : IsDuplicate(extracted[i][1], payload)

\* Lines 89-94 for the items of one file, none of which raises.
RECURSIVE MergeFragment(_, _)
MergeFragment(extracted, payload) ==
    IF extracted = <<>> THEN payload
    ELSE MergeFragment(Tail(extracted), SetItem(payload, extracted[1][1], extracted[1][2]))

\* relations keyed by the relation name alone.
SetRelationByName(rels, rel) ==
    IF \E i \in 1..Len(rels) : rels[i].name = rel.name
    THEN [i \in 1..Len(rels) |-> IF rels[i].name = rel.name THEN rel ELSE rels[i]]
    ELSE Append(rels, rel)

\* Line 145: relations[rel.key] = rel.
SetRelation(rels, rel) ==
    IF \E i \in 1..Len(rels) : key(rels[i]) = key(rel)
    THEN [i \in 1..Len(rels) |-> IF key(rels[i]) = key(rel) THEN rel ELSE rels[i]]
    ELSE Append(rels, rel)

\* Lines 121-145 for one entity: the relation index after its relationships.
RECURSIVE AddRelationships(_, _, _)
AddRelationships(rels, entity_name, cfg) ==
    IF cfg = <<>> THEN rels
    ELSE AddRelationships(
            SetRelation(rels, [name |-> cfg[1][1], from_entity |-> entity_name,
                               to_entity |-> cfg[1][2], description |-> ""]),
            entity_name, Tail(cfg))

\* Lines 147-153: the EntitySchema of an entity, with rel_specs as
\* (name, target) items.
EntitySchemaOf(entity_name, cfg) == [name |-> entity_name, relationships |-> cfg]

InitOntology ==
    /\ pc = "onto_files"
    /\ error = "none"
    /\ fragments \in SeqsUpTo(Fragments, MaxFrags) \ {<<>>}
    /\ frag_i = 1
    /\ entities_payload = <<>>
    /\ ent_i = 0
    /\ IdleLayer
    /\ IdlePipeline /\ IdleRegistry /\ IdleFilter /\ IdleKey

\* Lines 86-94: the next file is merged into entities_payload, or ValueError
\* for an entity name an earlier file defined.
LoadFragment ==
    /\ pc = "onto_files"
    /\ frag_i <= Len(fragments)
    /\ IF HasDuplicate(fragments[frag_i], entities_payload)
       THEN /\ pc' = "raised"
            /\ error' = "ValueError"
            /\ UNCHANGED <<entities_payload, frag_i>>
       ELSE /\ entities_payload' = MergeFragment(fragments[frag_i], entities_payload)
            /\ frag_i' = frag_i + 1
            /\ UNCHANGED <<pc, error>>
    /\ UNCHANGED <<fragments, ent_i, layerVars>>
    /\ UNCHANGED <<pipelineVars, registryVars, filterVars, keyVars>>

\* Lines 96-112: after the last file; ValueError when no entity was defined.
StartEntities ==
    /\ pc = "onto_files"
    /\ frag_i > Len(fragments)
    /\ IF entities_payload = <<>>
       THEN /\ pc' = "raised"
            /\ error' = "ValueError"
            /\ UNCHANGED ent_i
       ELSE /\ pc' = "onto_entities"
            /\ ent_i' = 1
            /\ UNCHANGED error
    /\ UNCHANGED <<fragments, frag_i, entities_payload, layerVars>>
    /\ UNCHANGED <<pipelineVars, registryVars, filterVars, keyVars>>

\* Lines 114-154 for one entity: ValueError for a relationship without a
\* target (the function returns nothing), otherwise its relations and its schema are
\* stored.
LoadEntity ==
    /\ pc = "onto_entities"
    /\ ent_i <= Len(entities_payload)
    /\ LET entity_name == entities_payload[ent_i][1]
           cfg == entities_payload[ent_i][2]
       IN IF \E k \in 1..Len(cfg) : ~Truthy(cfg[k][2])
          THEN /\ pc' = "raised"
               /\ error' = "ValueError"
               /\ entities' = <<>>
               /\ relations' = <<>>
               /\ UNCHANGED ent_i
          ELSE /\ relations' = AddRelationships(relations, entity_name, cfg)
               /\ entities' = Append(entities, EntitySchemaOf(entity_name, cfg))
               /\ ent_i' = ent_i + 1
               /\ UNCHANGED <<pc, error>>
    /\ UNCHANGED <<fragments, frag_i, entities_payload>>
    /\ UNCHANGED <<tools, tools_by_relation, tools_by_entity>>
    /\ UNCHANGED <<pipelineVars, registryVars, filterVars, keyVars>>

\* Line 156: return entities, relations.
ReturnOntology ==
    /\ pc = "onto_entities"
    /\ ent_i > Len(entities_payload)
    /\ pc' = "loaded"
    /\ UNCHANGED <<error, layerVars, ontologyVars>>
    /\ UNCHANGED <<pipelineVars, registryVars, filterVars, keyVars>>

NextOntology == LoadFragment \/ StartEntities \/ LoadEntity \/ ReturnOntology

SpecOntology == InitOntology /\ [][NextOntology]_vars

----------------------------------------------------------------------------
(* Properties of load_ontology. *)

\* The names of the loaded entities.
LoadedNames == {entities[i].name : i \in 1..Len(entities)}

\* C14: load_ontology fails, and returns no model, when a relationship names a
\* target that is not a defined entity; after a successful load the to_entity
\* of every relation is a key of the entity map.
C14_DanglingTargetRejected ==
    pc = "loaded" =>
       \A j \in 1..Len(relations) : relations[j].to_entity \in LoadedNames

\* Two of the first n fragments define the same entity name.
Collision(n) ==
    \E a, b \in 1..n :
       a # b /\ Keys(fragments[a]) \cap Keys(fragments[b]) # {}

\* The items of the first n fragments, in reading order.
RECURSIVE ItemsOfFirst(_)
ItemsOfFirst(n) == IF n = 0 THEN <<>> ELSE ItemsOfFirst(n - 1) \o fragments[n]

\* C15: when two fragments define the same entity name, in any reading order,
\* load_ontology fails with ValueError and returns no model; while it has not
\* failed, entities_payload holds every definition read so far, unchanged.
C15_DuplicateEntityRejected ==
    /\ pc = "loaded" => ~Collision(Len(fragments))
    /\ pc \in {"onto_files", "onto_entities", "loaded"} =>
          /\ ~Collision(frag_i - 1)
          /\ entities_payload = ItemsOfFirst(frag_i - 1)
    /\ (pc = "onto_files" /\ frag_i > Len(fragments)) => ~Collision(Len(fragments))
    /\ (pc = "raised" /\ frag_i <= Len(fragments)) =>
          /\ error = "ValueError"
          /\ Collision(frag_i)
          /\ entities = <<>> /\ relations = <<>>

\* The second file defined an entity the first had defined, and the load failed.
C15_Witness ==
    /\ pc = "raised"
    /\ error = "ValueError"
    /\ frag_i = 2
    /\ Len(fragments) >= 2
    /\ Keys(fragments[1]) \cap Keys(fragments[2]) # {}
    /\ entities = <<>>

\* The number of relationship entries of the first n loaded entities.
RECURSIVE RelationshipCount(_)
RelationshipCount(n) ==
    IF n = 0 THEN 0 ELSE RelationshipCount(n - 1) + Len(entities[n].relationships)

\* C16: after a successful load the relation index has exactly one entry,
\* keyed (declaring entity, relation name, target), per relationship entry of
\* each entity and no other: the number of relations is the sum of the numbers
\* of relationships, and list_relations_from(e) lists the relationships of e
\* one-to-one.
C16_RelationIndexMatchesRelationships ==
    pc = "loaded" =>
       /\ Len(relations) = RelationshipCount(Len(entities))
       /\ \A i, j \in 1..Len(relations) : i # j => key(relations[i]) # key(relations[j])
       /\ \A e \in 1..Len(entities) :
             LET from == list_relations_from(relations, entities[e].name)
                 rs == entities[e].relationships
             IN /\ Len(from) = Len(rs)
                /\ \A k \in 1..Len(rs) :
                      key(from[k]) = <<entities[e].name, rs[k][1], rs[k][2]>>
       /\ \A j \in 1..Len(relations) :
             \E e \in 1..Len(entities) : \E k \in 1..Len(entities[e].relationships) :
                key(relations[j]) = <<entities[e].name, entities[e].relationships[k][1],
                                      entities[e].relationships[k][2]>>

\* Two entities that both declare part_of were loaded, three relations in all.
C16_Witness ==
    /\ pc = "loaded"
    /\ Len(entities) = 2
    /\ Len(relations) = 3
    /\ \A e \in 1..Len(entities) :
          \E k \in 1..Len(entities[e].relationships) :
             entities[e].relationships[k][1] = "part_of"

----------------------------------------------------------------------------
(* The relevance key: Relation.key and Relation.from_key. *)

\* A split on the first character of the separator only.
RECURSIVE splitOnFirstChar(_, _)
splitOnFirstChar(s, sep) ==
    LET at == find(s, <<sep[1]>>, 1) IN
    IF at = 0 THEN <<s>>
    ELSE <<SubSeq(s, 1, at - 1)>> \o splitOnFirstChar(SubSeq(s, at + 1, Len(s)), sep)

\* str.split(sep) for a non-empty separator.
RECURSIVE split(_, _)
split(s, sep) ==
    LET at == find(s, sep, 1) IN
    IF at = 0 THEN <<s>>
    ELSE <<SubSeq(s, 1, at - 1)>> \o split(SubSeq(s, at + Len(sep), Len(s)), sep)

\* Relation.key, line 16: f"{source}.{name}->{target}".
Relation_key(t) == t[1] \o Chars(".") \o t[2] \o Chars("->") \o t[3]

\* Relation.from_key, lines 21-23, and relation_filtering.py, lines 58-60:
\* unpacking a split that has not exactly two parts raises ValueError.
from_key(k) ==
    LET parts == split(k, Chars(".")) IN
    IF Len(parts) # 2 THEN [ok |-> FALSE, error |-> "ValueError"]
    ELSE LET rest == split(parts[2], Chars("->")) IN
         IF Len(rest) # 2 THEN [ok |-> FALSE, error |-> "ValueError"]
         ELSE [ok |-> TRUE, triple |-> <<parts[1], rest[1], rest[2]>>]

\* The strings the components of a triple are drawn from; the last two hold a
\* separator.
KeyComponents ==
    { Chars("Facility"), Chars("hosts_event"), Chars("ContainerEvent"),
      Chars("a-"), Chars(">b"), Chars("a.b"), Chars("x->y") }

InitKey ==
    /\ pc = "key_start"
    /\ error = "none"
    /\ triple_a \in KeyComponents \X KeyComponents \X KeyComponents
    /\ triple_b \in KeyComponents \X KeyComponents \X KeyComponents
    /\ key_a = <<>> /\ key_b = <<>>
    /\ parsed_a = <<>>
    /\ IdleLayer /\ IdlePipeline /\ IdleRegistry /\ IdleOntology /\ IdleFilter

\* Both triples are serialized.
SerializeKeys ==
    /\ pc = "key_start"
    /\ key_a' = Relation_key(triple_a)
    /\ key_b' = Relation_key(triple_b)
    /\ pc' = "key_made"
    /\ UNCHANGED <<error, triple_a, triple_b, parsed_a, layerVars>>
    /\ UNCHANGED <<pipelineVars, registryVars, ontologyVars, filterVars>>

\* The key of the first triple is parsed.
ParseKey ==
    /\ pc = "key_made"
    /\ parsed_a' = from_key(key_a)
    /\ pc' = "key_parsed"
    /\ error' = IF from_key(key_a).ok THEN "none" ELSE "ValueError"
    /\ UNCHANGED <<triple_a, triple_b, key_a, key_b, layerVars>>
    /\ UNCHANGED <<pipelineVars, registryVars, ontologyVars, filterVars>>

NextKey == SerializeKeys \/ ParseKey

SpecKey == InitKey /\ [][NextKey]_vars

----------------------------------------------------------------------------
(* Properties of the relevance key. *)

\* No component of the triple contains "." or "->".
Clean(t) ==
    \A c \in 1..3 : find(t[c], Chars("."), 1) = 0 /\ find(t[c], Chars("->"), 1) = 0

\* The triple of the documented example.
ExampleTriple == <<Chars("Facility"), Chars("hosts_event"), Chars("ContainerEvent")>>

\* C19: for a triple whose components contain neither "." nor "->",
\* parsing its serialized key gives back the triple; two distinct such triples
\* have distinct keys; (Facility, hosts_event, ContainerEvent) serializes to
\* "Facility.hosts_event->ContainerEvent".
C19_KeyRoundTrip ==
    /\ (pc = "key_parsed" /\ Clean(triple_a)) =>
          /\ parsed_a.ok
          /\ parsed_a.triple = triple_a
    /\ (pc # "key_start" /\ Clean(triple_a) /\ Clean(triple_b) /\ triple_a # triple_b) =>
          key_a # key_b
    /\ (pc # "key_start" /\ triple_a = ExampleTriple) =>
          key_a = Chars("Facility.hosts_event->ContainerEvent")

\* A triple with "-" and ">" at the seams of its components was serialized and
\* parsed back, next to a distinct triple over the same components.
C19_Witness ==
    /\ pc = "key_parsed"
    /\ triple_a = <<Chars("Facility"), Chars("a-"), Chars(">b")>>
    /\ triple_b = <<Chars("a-"), Chars("Facility"), Chars(">b")>>
    /\ parsed_a.ok
    /\ parsed_a.triple = triple_a
    /\ key_a # key_b

----------------------------------------------------------------------------
(* RelationFiltering.forward *)

\* Number of candidate relations, and the largest batch size.
MaxCands == 4

MaxBatchSize == 3

\* Candidate tuples (source, name, target, description) in discovery order.
CandidatePool ==
    << <<"City", "has_facility", "Facility", "A city has facilities">>,
       <<"Facility", "hosts_event", "ContainerEvent", "">>,
       <<"Facility", "part_of", "Facility", "A facility is part of a facility">>,
       <<"Container", "has_event", "ContainerEvent", "">>,
       <<"Container", "belongs_to", "Shipment", "">>,
       <<"Shipment", "has_container", "Container", "">> >>

\* What the oracle can answer to a call: a dict from key string to label,
\* with well-formed keys, a key without "->", a key of no relation, or
\* nothing.
OracleAnswers ==
    { <<>>,
      << <<Chars("City.has_facility->Facility"), "yes">> >>,
      << <<Chars("City.has_facility->Facility"), "no">> >>,
      << <<Chars("Facility.hosts_event->ContainerEvent"), "YES">> >>,
      << <<Chars("Facility.hosts_event->ContainerEvent"), "no">>,
         <<Chars("City.has_facility->Facility"), "yes">> >>,
      << <<Chars("Facility.hosts_event"), "yes">> >>,
      << <<Relation_key(<<Chars("Facility"), Chars("has_facility"), Chars("City")>>), "yes">> >> }

\* A slice that stops one element early.
SliceShort(s, lo, hi) ==
    IF lo >= Len(s) THEN <<>>
    ELSE SubSeq(s, lo + 1, IF hi - 1 < Len(s) THEN hi - 1 ELSE Len(s))

\* s[lo:hi] for 0 <= lo <= hi.
Slice(s, lo, hi) ==
    IF lo >= Len(s) THEN <<>>
    ELSE SubSeq(s, lo + 1, IF hi < Len(s) THEN hi ELSE Len(s))

\* An update that replaces the dict by the new items.
updateReplacing(d, e) == e

\* dict.update: every item of e is set in d, in order.
RECURSIVE update(_, _)
update(d, e) ==
    IF e = <<>> THEN d ELSE update(SetItem(d, e[1][1], e[1][2]), Tail(e))

\* Lines 56-60: the converted dict, for keys that all parse.
RECURSIVE Convert(_, _)
Convert(items, out) ==
    IF items = <<>> THEN out
    ELSE Convert(Tail(items), SetItem(out, from_key(items[1][1]).triple, items[1][2]))

InitFilter ==
    /\ pc = "filter_loop"
    /\ error = "none"
    /\ batch_size \in 1..MaxBatchSize
    /\ \E n \in 0..MaxCands : filter_relations = SubSeq(CandidatePool, 1, n)
    /\ filter_i = 0
    /\ oracle_calls = <<>>
    /\ oracle_results = <<>>
    /\ merged = <<>>
    /\ final = <<>>
    /\ IdleLayer /\ IdlePipeline /\ IdleRegistry /\ IdleOntology /\ IdleKey

\* Lines 47-53: one iteration of the batch loop; the oracle is called with the
\* batch and its answer is merged, or the call raises.
FilterBatch ==
    /\ pc = "filter_loop"
    /\ filter_i < Len(filter_relations)
    /\ oracle_calls' = Append(oracle_calls,
                              Slice(filter_relations, filter_i, filter_i + batch_size))
    /\ \/ /\ \E relevant \in OracleAnswers :
                /\ oracle_results' = Append(oracle_results, relevant)
                /\ merged' = update(merged, relevant)
          /\ UNCHANGED <<pc, error>>
       \/ /\ pc' = AfterOracleError(pc)
          /\ error' = "OracleError"
          /\ UNCHANGED <<oracle_results, merged>>
    /\ filter_i' = filter_i + batch_size
    /\ UNCHANGED <<batch_size, filter_relations, final, layerVars>>
    /\ UNCHANGED <<pipelineVars, registryVars, ontologyVars, keyVars>>

\* Lines 56-62: after the loop the keys are parsed; a key that does not split
\* in two raises ValueError, otherwise final is returned.
FilterConvert ==
    /\ pc = "filter_loop"
    /\ filter_i >= Len(filter_relations)
    /\ IF \E k \in 1..Len(merged) : ~from_key(merged[k][1]).ok
       THEN /\ pc' = "raised"
            /\ error' = "ValueError"
            /\ UNCHANGED final
       ELSE /\ final' = Convert(merged, <<>>)
            /\ pc' = "filter_done"
            /\ UNCHANGED error
    /\ UNCHANGED <<batch_size, filter_relations, filter_i, oracle_calls, oracle_results,
                   merged, layerVars>>
    /\ UNCHANGED <<pipelineVars, registryVars, ontologyVars, keyVars>>

NextFilter == FilterBatch \/ FilterConvert

SpecFilter == InitFilter /\ [][NextFilter]_vars

----------------------------------------------------------------------------
(* Properties of RelationFiltering.forward. *)

\* The concatenation of a sequence of sequences.
RECURSIVE Concat(_)
Concat(ss) == IF ss = <<>> THEN <<>> ELSE ss[1] \o Concat(Tail(ss))

\* The batch loop has ended.
BatchesDone == filter_i >= Len(filter_relations)

\* C17: the k-th oracle call receives the candidates at positions k*batch_size
\* to (k+1)*batch_size - 1 (k from 0) in discovery order; no batch is empty or
\* longer than batch_size; every candidate is sent in exactly one batch; there
\* are ceil(n / batch_size) calls, none and an empty result for n = 0.
C17_BatchesFollowDiscoveryOrder ==
    LET n == Len(filter_relations) IN
    /\ \A k \in 1..Len(oracle_calls) :
          /\ Len(oracle_calls[k]) >= 1
          /\ Len(oracle_calls[k]) <= batch_size
          /\ \A j \in 1..Len(oracle_calls[k]) :
                /\ (k - 1) * batch_size + j <= n
                /\ oracle_calls[k][j] = filter_relations[(k - 1) * batch_size + j]
          /\ Len(oracle_calls[k]) < batch_size => k * batch_size > n
    /\ Concat(oracle_calls) = SubSeq(filter_relations, 1, Len(Concat(oracle_calls)))
    /\ BatchesDone =>
          /\ Concat(oracle_calls) = filter_relations
          /\ Len(oracle_calls) = (n + batch_size - 1) \div batch_size
    /\ (n = 0 /\ pc # "filter_loop") =>
          /\ oracle_calls = <<>>
          /\ pc = "filter_done"
          /\ final = <<>>

\* Three candidates were sent in batches of two: a full batch and a batch of one.
C17_Witness ==
    /\ pc = "filter_done"
    /\ Len(filter_relations) = 3
    /\ batch_size = 2
    /\ Len(oracle_calls) = 2
    /\ Len(oracle_calls[2]) = 1

\* The results in the order given by a permutation of their positions.
Permuted(p) == [k \in 1..Len(oracle_results) |-> oracle_results[p[k]]]

\* All results merged into an empty dict, in the given order.
RECURSIVE MergeAll(_, _)
MergeAll(results, d) ==
    IF results = <<>> THEN d ELSE MergeAll(Tail(results), update(d, results[1]))

\* A dict as a set of (key, value) pairs.
Items(d) == {d[i] : i \in 1..Len(d)}

\* No key is returned by two results.
DisjointResults ==
    \A a, b \in 1..Len(oracle_results) :
       a # b => Keys(oracle_results[a]) \cap Keys(oracle_results[b]) = {}

\* The value of the last item written for key k by the results so far.
LastWritten(k) ==
    LET a == CHOOSE a \in 1..Len(oracle_results) :
                /\ k \in Keys(oracle_results[a])
                /\ \A b \in (a + 1)..Len(oracle_results) : k \notin Keys(oracle_results[b])
    IN DictGet(oracle_results[a], k, "")

\* C18: the merged mapping holds every key any batch returned; a key returned
\* more than once keeps the value written last; when the batches return
\* disjoint key sets, merging them in any order gives the same mapping; the
\* returned mapping has the parsed key of every merged key with its value.
C18_MergeKeepsEveryKey ==
    /\ Keys(merged) = UNION {Keys(oracle_results[a]) : a \in 1..Len(oracle_results)}
    /\ \A i, j \in 1..Len(merged) : i # j => merged[i][1] # merged[j][1]
    /\ \A i \in 1..Len(merged) : merged[i][2] = LastWritten(merged[i][1])
    /\ DisjointResults =>
          \A p \in Permutations(1..Len(oracle_results)) :
             Items(MergeAll(Permuted(p), <<>>)) = Items(merged)
    /\ pc = "filter_done" =>
          /\ Len(final) = Len(merged)
          /\ \A i \in 1..Len(merged) :
                final[i] = <<from_key(merged[i][1]).triple, merged[i][2]>>

\* Two batches answered for the same key with different labels, a third for
\* another key, and the mapping was returned.
C18_Witness ==
    /\ pc = "filter_done"
    /\ Len(oracle_results) = 3
    /\ Len(merged) = 2
    /\ \E a, b \in 1..Len(oracle_results) :
          /\ a < b
          /\ Keys(oracle_results[a]) \cap Keys(oracle_results[b]) # {}
          /\ oracle_results[a] # oracle_results[b]

----------------------------------------------------------------------------
(* The per-query stages on the shared semantic layer. *)

\* tools_selection.py, lines 25-34: entity tools, then relation tools.
select_tools(expanded, active) == EntityTools(expanded) \o RelationTools(active)

\* A stage has ended and the next call can be made.
StageEnded ==
    pc \in {"built", "looked", "plan_done", "discover_done", "raised"}

\* The layer is built and no call has been made.
InitFrame ==
    /\ pc = "built"
    /\ error = "none"
    /\ BuiltLayer /\ BuiltRegistry
    /\ IdlePipeline /\ IdleOntology /\ IdleFilter /\ IdleKey

\* A call of select_tools.
SelectTools ==
    /\ pc = "built"
    /\ \E es \in SeqsUpTo(PlanEntityInputs, MaxSeeds), rs \in SeqsUpTo(PlanRelationInputs, MaxRels) :
          /\ lookup' = [kind |-> "select", key |-> <<es, rs>>, result |-> select_tools(es, rs)]
          /\ tools_by_entity' = IndexAfterGets(tools_by_entity, es)
          /\ tools_by_relation' = IndexAfterGets(tools_by_relation, rs)
    /\ pc' = "looked"
    /\ UNCHANGED <<error, entities, relations, tools, TOOLS_REGISTRY, decl_log>>
    /\ UNCHANGED <<pipelineVars, ontologyVars, filterVars, keyVars>>

\* A call of run_planning is made.
CallPlanning ==
    /\ pc = "built"
    /\ extracted_entities' \in {<<>>, <<[type |-> "City", value |-> "Sydney"]>>}
    /\ expanded_entities' \in SeqsUpTo(PlanEntityInputs, MaxSeeds)
    /\ active_relations' \in SeqsUpTo(PlanRelationInputs, MaxRels)
    /\ pc' = "plan_start"
    /\ UNCHANGED <<error, layerVars, stageVars, discoverVars>>
    /\ UNCHANGED <<candidate_tools, planner_calls, plan_steps, codegen_calls, python_code,
                   returned>>
    /\ UNCHANGED <<expand_args, step1_entities, relevant_relations, entity_types>>

\* A call of discover_relations is made.
CallDiscover ==
    /\ pc = "built"
    /\ seed_entities' \in SeqsUpTo(DiscoverSeedRecords, MaxSeeds)
    /\ seed_i' = 1
    /\ pc' = "discover_seed"
    /\ UNCHANGED <<error, layerVars, stageVars, expandVars, planVars>>
    /\ UNCHANGED <<seen, candidates, rel_list, rel_j>>

\* A call of expand_entities is made, on at most one seed and, when the call
\* passes a map, a relevance map of at most one key.
CallExpand ==
    /\ pc = "built"
    /\ \E call \in ExpandCalls :
          /\ expand_args' = call
          /\ relevant_relations' \in (IF PassesMap(call)
                                      THEN {m \in RelevanceMaps : Len(m) <= 1}
                                      ELSE {<<>>})
    /\ step1_entities' \in SeqsUpTo(SeedRecords, 1)
    /\ pc' = "expand_call"
    /\ UNCHANGED <<error, layerVars, stageVars, discoverVars, planVars>>
    /\ UNCHANGED <<entity_types, active_relations, expanded_entities>>

\* The call has ended; the next one starts from the same layer.
NextQuery ==
    /\ pc \in {"looked", "plan_done", "discover_done", "raised"}
    /\ pc' = "built"
    /\ error' = "none"
    /\ expand_args' = NoCall
    /\ step1_entities' = <<>> /\ relevant_relations' = <<>> /\ entity_types' = {}
    /\ active_relations' = <<>> /\ expanded_entities' = <<>>
    /\ seed_entities' = <<>> /\ seen' = {} /\ candidates' = <<>>
    /\ seed_i' = 0 /\ rel_list' = <<>> /\ rel_j' = 0
    /\ extracted_entities' = <<>> /\ candidate_tools' = <<>> /\ plan_steps' = <<>>
    /\ planner_calls' = <<>> /\ codegen_calls' = <<>> /\ python_code' = Chars("")
    /\ returned' = NotReturned
    /\ lookup' = [kind |-> "none"]
    /\ UNCHANGED <<layerVars, TOOLS_REGISTRY, decl_log, ontologyVars, filterVars, keyVars>>
    /\ UNCHANGED moduleVars

NextFrame ==
    \/ LookupRelation \/ LookupEntity \/ SelectTools
    \/ CallPlanning \/ PlanGuard \/ PlanCollectTools \/ PlanSchemas \/ PlannerCall \/ CodegenCall
    \/ CallDiscover \/ DiscoverSeed \/ DiscoverRel
    \/ CallExpand \/ ExpandCall \/ ExpandCollect
    \/ NextQuery

SpecFrame == InitFrame /\ [][NextFrame]_vars

\* C21: no per-query stage changes the shared semantic layer: after any
\* sequence of lookups and of calls of discover_relations, expand_entities,
\* select_tools and run_planning, entities, relations, tools, tools_by_entity
\* and tools_by_relation are what build_semantic_layer left; a lookup of an
\* unknown key adds no key and collecting candidates lengthens no value list.
C21_LayerUnchangedByQueries == BuiltLayer

\* run_planning has collected candidates for a relation key outside the
\* ontology, after an earlier call had ended.
C21_Witness ==
    /\ pc = "plan_schemas"
    /\ candidate_tools # <<>>
    /\ \E i \in 1..Len(active_relations) :
          active_relations[i] = <<"Facility", "has_facility", "City">>
    /\ \E i \in 1..Len(expanded_entities) : expanded_entities[i] = "City"

----------------------------------------------------------------------------
(* run_semantic_grounding *)

\* pipeline.py, lines 34-37: the keywords expand_entities is called with.
ExpandCallKeywords == {"step1_entities", "relevant_relations"}

\* Line 22: not entities
GroundingShortCircuits(ents) == ents = <<>>

InitGrounding ==
    /\ pc = "ground_start"
    /\ error = "none"
    /\ BuiltLayer
    /\ seed_entities \in SeqsUpTo(DiscoverSeedRecords, MaxSeeds)
    /\ seen = {} /\ candidates = <<>> /\ seed_i = 0 /\ rel_list = <<>> /\ rel_j = 0
    /\ batch_size \in 1..MaxBatchSize
    /\ filter_relations = <<>> /\ filter_i = 0
    /\ oracle_calls = <<>> /\ oracle_results = <<>> /\ merged = <<>> /\ final = <<>>
    /\ IdleExpand /\ active_relations = <<>> /\ expanded_entities = <<>>
    /\ IdlePlanning /\ BuiltRegistry /\ IdleOntology /\ IdleKey /\ IdleModules

\* Lines 22-27: without entities the function returns ([], []); otherwise
\* discover_relations is called with them.
GroundGuard ==
    /\ pc = "ground_start"
    /\ IF GroundingShortCircuits(seed_entities)
       THEN /\ pc' = "ground_done"
            /\ UNCHANGED seed_i
       ELSE /\ pc' = "discover_seed"
            /\ seed_i' = 1
    /\ UNCHANGED <<error, seed_entities, seen, candidates, rel_list, rel_j>>
    /\ UNCHANGED <<layerVars, expandVars, planVars, stageVars>>

\* Lines 28-32: the filtering model is called with the discovered relations.
GroundFilter ==
    /\ pc = "discover_done"
    /\ filter_relations' = candidates
    /\ filter_i' = 0
    /\ pc' = "filter_loop"
    /\ UNCHANGED <<error, batch_size, oracle_calls, oracle_results, merged, final>>
    /\ UNCHANGED <<layerVars, pipelineVars, registryVars, ontologyVars, keyVars>>

\* Lines 34-39: expand_entities is called with the seeds and the filtered map
\* as keywords; its result would be returned.
GroundExpand ==
    /\ pc = "filter_done"
    /\ expand_args' = [positional |-> 0, keywords |-> ExpandCallKeywords]
    /\ step1_entities' = seed_entities
    /\ relevant_relations' = final
    /\ IF BindsArguments(ExpandParameters, expand_args')
       THEN /\ pc' = "expand_start"
            /\ UNCHANGED error
       ELSE /\ pc' = "raised"
            /\ error' = "TypeError"
    /\ UNCHANGED <<entity_types, active_relations, expanded_entities>>
    /\ UNCHANGED <<layerVars, discoverVars, planVars, stageVars>>

NextGrounding ==
    \/ GroundGuard \/ DiscoverSeed \/ DiscoverRel
    \/ GroundFilter \/ FilterBatch \/ FilterConvert
    \/ GroundExpand

SpecGrounding == InitGrounding /\ [][NextGrounding]_vars

\* The two pipeline functions, each called on the built layer.
InitPipeline == InitGrounding \/ InitPlanning

NextPipeline == NextGrounding \/ NextPlanning

SpecPipeline == InitPipeline /\ [][NextPipeline]_vars

----------------------------------------------------------------------------
(* Properties of the pipeline functions. *)

\* The call is one of run_planning past its guard.
InPlanning == pc \in {"plan_tools", "plan_schemas", "plan_planner", "plan_codegen", "plan_done"}

\* The call is one of run_semantic_grounding past its guard.
InGrounding ==
    pc \in {"discover_seed", "discover_rel", "discover_done", "filter_loop", "filter_done",
            "ground_done"}

\* C22: when an oracle call fails (a relevance batch, the plan synthesis or
\* the code generation) the pipeline function ends with the error: it returns
\* no result, partial or not; no oracle call follows the failed one, so there
\* is no retry; the semantic layer is unchanged.
C22_OracleFailureEndsCall ==
    /\ [](error = "OracleError" =>
            /\ pc = "raised"
            /\ returned = NotReturned
            /\ final = <<>>
            /\ BuiltLayer)
    /\ [][error = "OracleError" =>
            UNCHANGED <<oracle_calls, planner_calls, codegen_calls, layerVars>>]_vars

\* The second of three relevance batches failed after the first had been merged.
C22_Witness ==
    /\ pc = "raised"
    /\ error = "OracleError"
    /\ Len(filter_relations) = 3
    /\ Len(oracle_calls) = 2
    /\ merged # <<>>

\* C23: the stages are sequential.  run_semantic_grounding calls discovery,
\* then the relevance oracle on what discovery returned, then expansion on the
\* seeds and the merged map, and returns expansion's result; run_planning
\* calls the planner exactly once, then the code generator exactly once, with
\* exactly the planner's step list and a tool catalog built from the candidate
\* tools the planner was given.
C23_StagesSequential ==
    /\ Len(planner_calls) <= 1 /\ Len(codegen_calls) <= Len(planner_calls)
    /\ (pc = "plan_done" /\ ~PlanningShortCircuits(extracted_entities, expanded_entities)) =>
          /\ Len(planner_calls) = 1 /\ Len(codegen_calls) = 1
          /\ codegen_calls[1].plan = plan_steps
          /\ codegen_calls[1].tools = ToolsDict(planner_calls[1], <<>>)
          /\ returned[1] = plan_steps
    /\ oracle_calls # <<>> => (seed_i > Len(seed_entities) /\ filter_relations = candidates)
    /\ (pc = "raised" /\ seed_entities # <<>>) => error \in {"OracleError", "ValueError"}

\* The relation index keys, as the strings' code points.
RelationIndexKeys ==
    {<<Chars(relations[i].from_entity), Chars(relations[i].name), Chars(relations[i].to_entity)>> :
        i \in 1..Len(relations)}

\* A call of run_semantic_grounding on a non-empty entity list has ended, by
\* returning or by raising, after the relevance stage had completed.
GroundingEnded ==
    /\ pc \in {"ground_done", "raised"}
    /\ seed_entities # <<>>
    /\ error \notin {"OracleError", "ValueError"}

\* The seed types of the grounding call and the endpoints of the active
\* relations it returned, as the strings' code points.
GroundingNodes ==
    {Chars(seed_entities[i].type) :
        i \in {j \in 1..Len(seed_entities) : "type" \in DOMAIN seed_entities[j]}}
    \cup UNION {{active_relations[i][1], active_relations[i][3]} :
                 i \in 1..Len(active_relations)}

C30_EmptyInputShortCircuits ==
    /\ (InPlanning /\ (extracted_entities = <<>> \/ expanded_entities = <<>>)) =>
          /\ pc = "plan_done"
          /\ returned = <<<<>>, Chars("")>>
          /\ candidate_tools = <<>>
          /\ planner_calls = <<>> /\ codegen_calls = <<>>
    /\ (InGrounding /\ seed_entities = <<>>) =>
          /\ pc = "ground_done"
          /\ expanded_entities = <<>> /\ active_relations = <<>>
          /\ seed_i = 0 /\ candidates = <<>>
          /\ oracle_calls = <<>>

\* run_planning returned early for extracted entities and active relations
\* with an empty expanded list.
C30_Witness ==
    /\ pc = "plan_done"
    /\ extracted_entities # <<>>
    /\ expanded_entities = <<>>
    /\ active_relations # <<>>
    /\ returned = <<<<>>, Chars("")>>

----------------------------------------------------------------------------
(* PythonCodeGen.forward *)

InitCodegen ==
    /\ pc = "codegen_start"
    /\ error = "none"
    /\ generated \in ModelAnswers
    /\ validate_syntax \in BOOLEAN
    /\ strip_markdown_fences \in BOOLEAN
    /\ forward_result = [kind |-> "none"]
    /\ IdleLayer
    /\ IdleExpand /\ active_relations = <<>> /\ expanded_entities = <<>>
    /\ IdleDiscover /\ IdlePlanning
    /\ IdleRegistry /\ IdleOntology /\ IdleFilter /\ IdleKey
    /\ IdleSchema /\ IdleReload /\ IdleLayout

\* Lines 141-150: the answer is cleaned, checked when validate_syntax is set,
\* and returned; ValueError when the check rejects it.
Forward ==
    /\ pc = "codegen_start"
    /\ forward_result' = forward(generated, validate_syntax, strip_markdown_fences)
    /\ IF forward_result'.kind = "return"
       THEN /\ pc' = "codegen_done"
            /\ UNCHANGED error
       ELSE /\ pc' = "raised"
            /\ error' = forward_result'.error
    /\ UNCHANGED <<generated, validate_syntax, strip_markdown_fences>>
    /\ UNCHANGED <<layerVars, expandVars, discoverVars, planVars>>
    /\ UNCHANGED <<registryVars, ontologyVars, filterVars, keyVars>>
    /\ UNCHANGED <<schemaVars, reloadVars, layoutVars>>

\* The generator alone, and run_planning with a generator.
InitGeneration == InitCodegen \/ InitPlanning

NextGeneration == Forward \/ NextPlanning

SpecGeneration == InitGeneration /\ [][NextGeneration]_vars

----------------------------------------------------------------------------
(* Properties of the code generator. *)

\* C24 as stated: generated code that fails the syntax check is rejected and
\* never surfaced.  PythonCodeGen.forward returns a python_code only if that
\* text parses as Python, and run_planning returns no code that does not
\* parse.
C24_OnlyParsingCodeReturned ==
    /\ pc = "codegen_done" => ParsesAsPython(forward_result.python_code)
    /\ (pc = "plan_done" /\ codegen_calls # <<>>) => ParsesAsPython(returned[2])

\* C24, for a generator whose validate_syntax is set (the default, and the
\* generator run_planning builds when it is given none): forward returns a
\* python_code only if the cleaned text parses, and raises ValueError
\* otherwise; run_planning then returns the parsing code, or raises and
\* returns nothing.
C24_CheckedCodeParses ==
    validate_syntax =>
        /\ pc = "codegen_done" =>
              /\ forward_result.kind = "return"
              /\ ParsesAsPython(forward_result.python_code)
        /\ (pc = "raised" /\ generated # <<>>) =>
              /\ forward_result = [kind |-> "raise", error |-> "ValueError"]
              /\ ~ParsesAsPython(postprocess_code(generated, strip_markdown_fences))
        /\ (pc = "plan_done" /\ codegen_calls # <<>>) =>
              /\ ParsesAsPython(returned[2])
              /\ python_code = returned[2]
        /\ (pc = "raised" /\ codegen_calls # <<>>) =>
              /\ returned = NotReturned
              /\ python_code = Chars("")

\* A checking generator rejected invalid code that came in a tagged fence
\* after a line of prose.
C24_Witness ==
    /\ pc = "raised"
    /\ error = "ValueError"
    /\ validate_syntax /\ strip_markdown_fences
    /\ generated = Chars("Here is the code:") \o Newline \o Fence \o Chars("python")
                      \o Newline \o Chars("result = (") \o Newline \o Fence
    /\ forward_result.kind = "raise"

----------------------------------------------------------------------------
(* normalize_model_schema *)

\* Number of fields of a model schema.
MaxProps == 2

\* The JSON schema of a field, a dict: with and without a format, with the
\* format in another case, with further keys, and with the format only inside
\* an anyOf branch.
PropSchemas ==
    { [type |-> "string"],
      [type |-> "integer", description |-> "count"],
      [type |-> "string", format |-> "date-time"],
      [type |-> "string", format |-> "date"],
      [type |-> "string", format |-> "DATE-TIME"],
      [type |-> "string", format |-> "date-time", description |-> "when"],
      [format |-> "date-time"],
      [anyOf |-> <<[type |-> "string", format |-> "date-time"], [type |-> "null"]>>] }

PropNames == {"timestamp", "id", "name"}

\* The properties dict of a schema: (name, field schema) items, no name twice.
PropertyMaps ==
    {p \in SeqsUpTo(PropNames \X PropSchemas, MaxProps) :
        \A i, j \in 1..Len(p) : i # j => p[i][1] # p[j][1]}

\* A model schema: with a properties dict, or without the key.
ModelSchemas ==
    {[title |-> "ContainerEvent", type |-> "object"]}
        \cup {[title |-> "ContainerEvent", type |-> "object", properties |-> p] : p \in PropertyMaps}

\* dict.pop(k, None) on a dict with string keys.
pop(dict, k) == [x \in DOMAIN dict \ {k} |-> dict[x]]

\* A normalisation that drops every format.
NormalizePropAnyFormat(prop_schema) ==
    IF "format" \in DOMAIN prop_schema THEN pop(prop_schema, "format") ELSE prop_schema

\* Lines 71-72: if prop_schema.get("format") == "date-time": pop("format").
NormalizeProp(prop_schema) ==
    IF get(prop_schema, "format") = "date-time" THEN pop(prop_schema, "format") ELSE prop_schema

\* schema_converters.py, lines 65-74 (adapters.py, lines 68-77, is the same
\* function): the dict is changed in place and returned.
normalize_model_schema(s) ==
    IF "properties" \in DOMAIN s
    THEN [s EXCEPT !["properties"] = [i \in 1..Len(@) |-> <<@[i][1], NormalizeProp(@[i][2])>>]]
    ELSE s

InitSchema ==
    /\ pc = "schema_start"
    /\ error = "none"
    /\ schema \in ModelSchemas
    /\ normalized = <<>>
    /\ normalized_twice = <<>>
    /\ normalize_calls = <<>>
    /\ IdleLayer
    /\ IdleExpand /\ active_relations = <<>> /\ expanded_entities = <<>>
    /\ IdleDiscover /\ IdlePlanning
    /\ IdleRegistry /\ IdleOntology /\ IdleFilter /\ IdleKey
    /\ IdleCodegen /\ IdleReload /\ IdleLayout

\* A call of normalize_model_schema: the argument is changed in place and is
\* what the call returns (lines 70-74).
Normalize ==
    /\ pc = "schema_start"
    /\ schema' = normalize_model_schema(schema)
    /\ normalized' = schema'
    /\ normalize_calls' = Append(normalize_calls, [argument |-> schema, returned |-> schema'])
    /\ pc' = "schema_once"
    /\ UNCHANGED <<error, normalized_twice>>
    /\ UNCHANGED <<layerVars, expandVars, discoverVars, planVars>>
    /\ UNCHANGED <<registryVars, ontologyVars, filterVars, keyVars>>
    /\ UNCHANGED <<codegenVars, reloadVars, layoutVars>>

\* A second call, on what the first returned: the same dict, changed in
\* place and returned again.
NormalizeAgain ==
    /\ pc = "schema_once"
    /\ normalized_twice' = normalize_model_schema(normalized)
    /\ normalized' = normalized_twice'
    /\ schema' = normalized_twice'
    /\ normalize_calls' = Append(normalize_calls,
                                 [argument |-> normalized, returned |-> normalized_twice'])
    /\ pc' = "schema_twice"
    /\ UNCHANGED error
    /\ UNCHANGED <<layerVars, expandVars, discoverVars, planVars>>
    /\ UNCHANGED <<registryVars, ontologyVars, filterVars, keyVars>>
    /\ UNCHANGED <<codegenVars, reloadVars, layoutVars>>

NextSchema == Normalize \/ NormalizeAgain

SpecSchema == InitSchema /\ [][NextSchema]_vars

----------------------------------------------------------------------------
(* Properties of normalize_model_schema. *)

\* The field schema b is a without its format key.
WithoutFormat(a, b) ==
    /\ DOMAIN b = DOMAIN a \ {"format"}
    /\ \A k \in DOMAIN b : b[k] = a[k]

\* C26: normalize_model_schema removes the format key of a field exactly
\* when its value is the string "date-time"; it leaves type and every other
\* key of that field, every field whose format is absent or different, the
\* field names and their order, and every other key of the schema unchanged;
\* applying it twice gives what applying it once gives.
C26_OnlyDateTimeFormatRemoved ==
    /\ \A c \in 1..Len(normalize_calls) :
          LET arg == normalize_calls[c].argument
              res == normalize_calls[c].returned
          IN /\ DOMAIN res = DOMAIN arg
             /\ \A k \in DOMAIN arg \ {"properties"} : res[k] = arg[k]
             /\ "properties" \in DOMAIN arg =>
                   /\ Len(res.properties) = Len(arg.properties)
                   /\ \A i \in 1..Len(arg.properties) :
                         LET a == arg.properties[i][2]
                             b == res.properties[i][2]
                         IN /\ res.properties[i][1] = arg.properties[i][1]
                            /\ IF "format" \in DOMAIN a /\ a.format = "date-time"
                               THEN WithoutFormat(a, b)
                               ELSE b = a
    /\ pc = "schema_twice" => normalized_twice = normalize_calls[1].returned

\* A schema with a date-time field that has a description and a date field
\* was normalised twice.
C26_Witness ==
    /\ pc = "schema_twice"
    /\ "properties" \in DOMAIN normalize_calls[1].argument
    /\ normalize_calls[1].argument.properties =
          << <<"timestamp", [type |-> "string", format |-> "date-time", description |-> "when"]>>,
             <<"name", [type |-> "string", format |-> "date"]>> >>
    /\ normalized.properties =
          << <<"timestamp", [type |-> "string", description |-> "when"]>>,
             <<"name", [type |-> "string", format |-> "date"]>> >>
    /\ schema = normalized

----------------------------------------------------------------------------
(* SemanticLayer.find_entity_by_label *)

\* Number of entities of the entity map.
MaxEnts == 2

\* Entity schemas with synonyms; "city" is a synonym of Facility and, in
\* another case, the name of City.
LabelledEntities ==
    [name : {"City", "Facility", "Container"},
     synonyms : {<<>>, <<"Town">>, <<"Terminal", "city">>, <<"town", "Town">>},
     relationships : {<<>>}]

\* The entity map, in insertion order: no name twice.
EntityMaps ==
    {m \in SeqsUpTo(LabelledEntities, MaxEnts) :
        \A i, j \in 1..Len(m) : i # j => m[i].name # m[j].name}

Labels == {"city", "CITY", "Town", "TERMINAL", "facility", "Planet", ""}

\* s.lower() == label_lower
SameLower(s, label_lower) == lower(Chars(s)) = label_lower

\* A search that tries the names of all entities before any synonym.
find_entity_names_first(ents, label) ==
    LET label_lower == lower(Chars(label))
        by_name == {i \in 1..Len(ents) : SameLower(ents[i].name, label_lower)}
        by_synonym == {i \in 1..Len(ents) :
                          \E k \in 1..Len(ents[i].synonyms) :
                              SameLower(ents[i].synonyms[k], label_lower)}
        first(S) == CHOOSE i \in S : \A j \in S : i <= j
    IN IF by_name # {} THEN [found |-> TRUE, entity |-> ents[first(by_name)]]
       ELSE IF by_synonym # {} THEN [found |-> TRUE, entity |-> ents[first(by_synonym)]]
       ELSE [found |-> FALSE]

\* engine.py, lines 60-71: the loop over self.entities.values(); for each
\* entity the name is compared, then the synonyms; None after the loop.
RECURSIVE find_entity_by_label(_, _)
find_entity_by_label(ents, label) ==
    LET label_lower == lower(Chars(label)) IN
    IF ents = <<>> THEN [found |-> FALSE]
    ELSE IF SameLower(ents[1].name, label_lower) THEN [found |-> TRUE, entity |-> ents[1]]
    ELSE IF \E k \in 1..Len(ents[1].synonyms) : SameLower(ents[1].synonyms[k], label_lower)
         THEN [found |-> TRUE, entity |-> ents[1]]
    ELSE find_entity_by_label(Tail(ents), label)

InitLabel ==
    /\ pc = "label_start"
    /\ error = "none"
    /\ entities \in EntityMaps
    /\ relations = <<>> /\ tools = <<>>
    /\ tools_by_relation = <<>> /\ tools_by_entity = <<>>
    /\ IdlePipeline /\ IdleStages

\* A call of find_entity_by_label.
FindEntityByLabel ==
    /\ pc = "label_start"
    /\ \E label \in Labels :
          lookup' = [kind |-> "label", key |-> label,
                     result |-> find_entity_by_label(entities, label)]
    /\ pc' = "label_done"
    /\ UNCHANGED <<error, layerVars, TOOLS_REGISTRY, decl_log>>
    /\ UNCHANGED <<pipelineVars, ontologyVars, filterVars, keyVars>>

NextLabel == FindEntityByLabel

SpecLabel == InitLabel /\ [][NextLabel]_vars

----------------------------------------------------------------------------
(* Properties of find_entity_by_label. *)

\* The label equals the entity's name or one of its synonyms, ignoring case.
LabelMatches(ent, label) ==
    \/ lower(Chars(ent.name)) = lower(Chars(label))
    \/ \E k \in 1..Len(ent.synonyms) : lower(Chars(ent.synonyms[k])) = lower(Chars(label))

\* C27: find_entity_by_label returns the first entity, in insertion order of
\* the entity map, whose name or any synonym equals the label ignoring case,
\* and nothing when no entity matches; an earlier entity that matches by a
\* synonym is returned before a later entity that matches by its name.
C27_FirstMatchInInsertionOrder ==
    pc = "label_done" =>
        LET hits == {i \in 1..Len(entities) : LabelMatches(entities[i], lookup.key)} IN
        IF hits = {}
        THEN ~lookup.result.found
        ELSE /\ lookup.result.found
             /\ \E i \in hits :
                   /\ \A j \in hits : i <= j
                   /\ lookup.result.entity = entities[i]

\* Facility, first in the map, has the synonym "city"; City is second; the
\* label "CITY" returned Facility.
C27_Witness ==
    /\ pc = "label_done"
    /\ Len(entities) = 2
    /\ entities[1] = [name |-> "Facility", synonyms |-> <<"Terminal", "city">>,
                      relationships |-> <<>>]
    /\ entities[2].name = "City"
    /\ lookup.key = "CITY"
    /\ lookup.result.found
    /\ lookup.result.entity.name = "Facility"

----------------------------------------------------------------------------
(* load_tools called again in the same process *)

\* Number of load_tools calls.
MaxLoads == 3

ModuleNames ==
    {"agent_poc.semantic_layer.tools", "plugins.weather_tools", "plugins.port_tools"}

\* engine.py, line 18.
DEFAULT_TOOL_MODULES == <<"agent_poc.semantic_layer.tools">>

\* The @semantic_tool declarations a module makes when its body runs.
ModuleDeclarations(module_path) ==
    IF module_path = "agent_poc.semantic_layer.tools" THEN ToolsRegistry
    ELSE IF module_path = "plugins.weather_tools"
    THEN << [name |-> "get_weather", entity |-> "City", relation |-> NoRelation] >>
    ELSE << [name |-> "get_port_calls", entity |-> "Facility", relation |-> NoRelation] >>

\* The tool_modules argument: None (here the empty list), or module paths.
ToolModuleLists ==
    {m \in SeqsUpTo(ModuleNames, 2) : \A i, j \in 1..Len(m) : i # j => m[i] # m[j]}

\* The registry after the declarations of a module body.
RECURSIVE Declare(_, _)
Declare(registry, decls) ==
    IF decls = <<>> THEN registry
    ELSE Declare(SetByName(registry, decls[1]), Tail(decls))

\* import_module(module_path): the body of a module runs on its first import
\* only; a module in sys.modules is returned as it is.
ImportModule(registry, module_path, imported) ==
    IF module_path \in imported THEN registry
    ELSE Declare(registry, ModuleDeclarations(module_path))

\* Lines 110-111: the loop over the modules.
RECURSIVE ImportAll(_, _, _)
ImportAll(registry, modules, imported) ==
    IF modules = <<>> THEN registry
    ELSE ImportAll(ImportModule(registry, modules[1], imported), Tail(modules),
                   imported \cup {modules[1]})

InitReload ==
    /\ pc = "reload"
    /\ error = "none"
    /\ tool_modules \in ToolModuleLists
    /\ sys_modules \in SUBSET ModuleNames
    /\ load_results = <<>>
    /\ TOOLS_REGISTRY = <<>> /\ decl_log = <<>> /\ lookup = [kind |-> "none"]
    /\ IdleLayer
    /\ IdleExpand /\ active_relations = <<>> /\ expanded_entities = <<>>
    /\ IdleDiscover /\ IdlePlanning
    /\ IdleOntology /\ IdleFilter /\ IdleKey
    /\ IdleCodegen /\ IdleSchema /\ IdleLayout

\* load_tools, lines 104-142: the registry is cleared, the modules are
\* imported, and the ToolInfo of every registry entry is returned.
LoadTools ==
    /\ pc = "reload"
    /\ Len(load_results) < MaxLoads
    /\ LET modules == IF tool_modules = <<>> THEN DEFAULT_TOOL_MODULES ELSE tool_modules
           registry == ImportAll(<<>>, modules, sys_modules)
       IN /\ TOOLS_REGISTRY' = registry
          /\ sys_modules' = sys_modules \cup {modules[i] : i \in 1..Len(modules)}
          /\ load_results' = Append(load_results, load_tools(registry))
    /\ UNCHANGED <<pc, error, tool_modules, layerVars, decl_log, lookup>>
    /\ UNCHANGED <<expandVars, discoverVars, planVars>>
    /\ UNCHANGED <<ontologyVars, filterVars, keyVars>>
    /\ UNCHANGED <<codegenVars, schemaVars, layoutVars>>

NextReload == LoadTools

SpecReload == InitReload /\ [][NextReload]_vars

----------------------------------------------------------------------------
(* Properties of reloading. *)

\* C29: reloading tools is idempotent.  Every load_tools call of a process,
\* made with the same tool modules, returns the tools the first call
\* returned: no stale entry and no tool lost, also when the modules were
\* imported by an earlier call.
C29_ReloadIdempotent ==
    \A i \in 1..Len(load_results) : load_results[i] = load_results[1]

----------------------------------------------------------------------------
(* load_ontology on the two layouts of one ontology *)

\* The entities mapping of a single-file source: (name, configuration) items
\* in document order, no name twice.
Documents ==
    {m \in SeqsUpTo({"City", "Facility"} \X RelationshipCfgs, MaxFrags) \ {<<>>} :
        \A i, j \in 1..Len(m) : i # j => m[i][1] # m[j][1]}

FileNames == {"city.yaml", "facility.yaml", "entity_01.yaml"}

\* The position of a file name in the list of names.
IndexOf(names, n) == CHOOSE i \in 1..Len(names) : names[i] = n

\* Lines 79-88 and 10-41: the directory that holds entity i of the document
\* in the file names[i], read in sorted path order, one entity per file.
DirectoryFragments(doc, names) ==
    LET yaml_files == sorted({names[i] : i \in 1..Len(names)})
    IN [k \in 1..Len(yaml_files) |-> << doc[IndexOf(names, yaml_files[k])] >>]

InitLayouts ==
    /\ pc = "onto_files"
    /\ error = "none"
    /\ document \in Documents
    /\ file_names \in {n \in SeqsUpTo(FileNames, MaxFrags) :
                          /\ Len(n) = Len(document)
                          /\ \A i, j \in 1..Len(n) : i # j => n[i] # n[j]}
    /\ dir_model = [kind |-> "none"]
    /\ fragments = DirectoryFragments(document, file_names)
    /\ frag_i = 1
    /\ entities_payload = <<>>
    /\ ent_i = 0
    /\ IdleLayer
    /\ IdleExpand /\ active_relations = <<>> /\ expanded_entities = <<>>
    /\ IdleDiscover /\ IdlePlanning
    /\ IdleRegistry /\ IdleFilter /\ IdleKey
    /\ IdleCodegen /\ IdleSchema /\ IdleReload

\* The directory is loaded; load_ontology is called on the single file.
\* Lines 99-118: entities_def is the file's entities mapping.
LoadSingleFile ==
    /\ pc = "loaded"
    /\ dir_model.kind = "none"
    /\ document # <<>>
    /\ dir_model' = [kind |-> "model", entities |-> entities, relations |-> relations]
    /\ entities' = <<>>
    /\ relations' = <<>>
    /\ entities_payload' = document
    /\ ent_i' = 1
    /\ pc' = "onto_entities"
    /\ UNCHANGED <<error, fragments, frag_i, document, file_names>>
    /\ UNCHANGED <<tools, tools_by_relation, tools_by_entity>>
    /\ UNCHANGED <<expandVars, discoverVars, planVars>>
    /\ UNCHANGED <<registryVars, filterVars, keyVars>>
    /\ UNCHANGED <<codegenVars, schemaVars, reloadVars>>

NextLayouts == LoadFragment \/ StartEntities \/ LoadEntity \/ ReturnOntology \/ LoadSingleFile

SpecLayouts == InitLayouts /\ [][NextLayouts]_vars

----------------------------------------------------------------------------
(* Properties of the two layouts. *)

\* C25: the single-file layout and the directory layout of the same
\* ontology load to an identical model: the same entity map and the same
\* relation index, in the same iteration order, whatever the file names of the
\* directory are.
C25_LayoutsLoadIdentically ==
    (pc = "loaded" /\ dir_model.kind = "model") =>
        /\ dir_model.entities = entities
        /\ dir_model.relations = relations

Init ==
    \/ InitExpand \/ InitDiscover \/ InitPlanning \/ InitRegistry
    \/ InitOntology \/ InitKey \/ InitFilter \/ InitFrame \/ InitGrounding
    \/ InitCodegen \/ InitSchema \/ InitLabel \/ InitReload \/ InitLayouts

Next ==
    \/ NextExpand \/ NextDiscover \/ NextPlanning \/ NextRegistry
    \/ NextOntology \/ NextKey \/ NextFilter \/ NextFrame \/ NextGrounding
    \/ Forward \/ NextSchema \/ NextLabel \/ NextReload \/ LoadSingleFile

Spec == Init /\ [][Next]_vars

====
